---- MODULE Spec2Model ----
(***************************************************************************)
(* Register allocator of the ARM backend (backend/codegen/reg_alloc.cpp).  *)
(* One RegAllocator instance rewrites one arm::Function:                   *)
(*   construct_reg_map; calc_live_intervals; calc_reg_affinity;            *)
(*   perform_load_stores (one scan step per input instruction);            *)
(*   the prologue/epilogue patch at the end of alloc_regs.                 *)
(* The allocator state is the set of VARIABLES below; the helper methods   *)
(* of the class are operators that take the part of the state they change  *)
(* as a record `s` and return the changed record (field `ret` carries the  *)
(* C++ return value, field `err` a thrown exception).                      *)
(***************************************************************************)
EXTENDS Integers, Sequences, FiniteSets, TLC

\* ------------------------------------------------------------------------
\* Registers (arm.hpp) and pools
\* ------------------------------------------------------------------------
REG_FP == 11
REG_IP == 12
REG_SP == 13
REG_LR == 14
REG_PC == 15
REG_V_GP_START == 64
\* the end of the interval of a directly written physical register is
\* UINT32_MAX in the source; the model's integers stop at 2^31 - 1, and the
\* value is only compared with instruction indices
PINNED_END == 2147483647
FRAME_IMM_LIMIT == 1024
SLOT_SIZE == 4
\* number of values of the int16_t offset of a MemoryOperand
INT16_SPAN == 65536
MAX_REG_PARAMS == 4

\* `Reg r = -1` in alloc_transient_reg, and an absent register operand
NoReg == 0 - 1

TEMP_REGS == <<0, 1, 2, 3, 12, 14>>
GLOB_REGS == <<4, 5, 6, 7, 8, 9, 10>>
CALL_CLOBBERED == {0, 1, 2, 3, 12, 14}

is_virtual_register(r) == r >= REG_V_GP_START

\* ------------------------------------------------------------------------
\* Small helpers on sequences and finite maps
\* ------------------------------------------------------------------------
SeqRange(q) == {q[k] : k \in 1..Len(q)}

RemoveAt(q, k) == [j \in 1..(Len(q) - 1) |-> IF j < k THEN q[j] ELSE q[j + 1]]

InsertAt(q, k, e) ==
  [j \in 1..(Len(q) + 1) |-> IF j < k THEN q[j] ELSE IF j = k THEN e ELSE q[j - 1]]

\* index of the first element satisfying Test, 0 when there is none
FirstIndex(q, Test(_)) ==
  LET hits == {k \in 1..Len(q) : Test(q[k])}
  IN IF hits = {} THEN 0 ELSE CHOOSE k \in hits : \A j \in hits : k <= j

MapErase(f, k) == [x \in (DOMAIN f) \ {k} |-> f[x]]

\* std::map::insert / unordered_map::insert: an existing key keeps its value
MapInsert(f, k, v) == IF k \in DOMAIN f THEN f ELSE (k :> v) @@ f

MapPut(f, k, v) == (k :> v) @@ MapErase(f, k)

EmptyMap == [x \in {} |-> 0]

Min2(a, b) == IF a < b THEN a ELSE b

\* ------------------------------------------------------------------------
\* Interval (reg_alloc.cpp: struct Interval)
\* ------------------------------------------------------------------------
Interval(start, end) == [start |-> start, end |-> end]

IntervalAt(point) == Interval(point, point)

add_starting_point(iv, start_) == IF start_ < iv.start THEN [iv EXCEPT !.start = start_] ELSE iv

add_ending_point(iv, end_) == IF end_ > iv.end THEN [iv EXCEPT !.end = end_] ELSE iv

with_starting_point(iv, start_) == [iv EXCEPT !.start = start_]

\* an overlap test that finds no two intervals overlapping
overlaps_never(iv, other) == FALSE

overlaps(iv, other) == iv.end > other.start /\ iv.start < other.end

\* ------------------------------------------------------------------------
\* Labels are character sequences; std::string::find and friends
\* ------------------------------------------------------------------------
NUL == "\\0"
Npos == 0 - 1

\* std::string::find(const char*): position of the first occurrence (0-based)
StrFind(str, pat) ==
  LET hits == {k \in 0..(Len(str) - Len(pat)) :
                 \A j \in 1..Len(pat) : str[k + j] = pat[j]}
  IN IF hits = {} THEN Npos ELSE CHOOSE k \in hits : \A j \in hits : k <= j

\* std::string::find(char)
StrFindChar(str, ch) == StrFind(str, <<ch>>)

PAT_BB == <<".", "b", "b", "_">>
PAT_LD_PC == <<".", "l", "d", "_", "p", "c">>

\* ------------------------------------------------------------------------
\* Instructions (arm.hpp: Inst and its subclasses), one record shape.
\*   r2 = NoReg: the Operand2 / memory offset is the immediate `imm`
\*   r1 = NoReg in a LoadStoreInst: the memory operand is a label
\*   shift, shift_amount: the RegisterOperand r2 (Operand2 or memory index)
\*   mem_kind, neg_rm: MemoryOperand::kind and ::neg_rm of a LoadStoreInst
\*   val_type: the type held by CtrlInst::val; an int value is `imm`, a
\*   value of another type is kept as its text in `label`
\*   is_asm_option: CtrlInst::is_asm_option
\* History fields, not read by the allocator:
\*   org   index of the input instruction this one is (NoReg: inserted)
\*   gv    the virtual an inserted ldr/str is for
\*   gslot its spill slot
\*   dly   the delayed_store pending when the instruction was emitted
\* ------------------------------------------------------------------------
Inst(kind, op, cond, rd, r1, r2, r3, imm, label, regs, param_cnt) ==
  [kind |-> kind, op |-> op, cond |-> cond, rd |-> rd, r1 |-> r1, r2 |-> r2,
   r3 |-> r3, imm |-> imm, label |-> label, regs |-> regs,
   param_cnt |-> param_cnt, shift |-> "Lsl", shift_amount |-> 0,
   mem_kind |-> "None", neg_rm |-> FALSE, val_type |-> "int",
   is_asm_option |-> FALSE, org |-> NoReg, gv |-> NoReg, gslot |-> NoReg,
   dly |-> <<>>]

\* RegisterOperand(r2, shift, shift_amount) in place of the plain register
Shifted(x, shift, shift_amount) ==
  [x EXCEPT !.shift = shift, !.shift_amount = shift_amount]

\* MemoryOperand(r1, offset, kind) and its neg_rm flag
Indexed(x, mem_kind, neg_rm) == [x EXCEPT !.mem_kind = mem_kind, !.neg_rm = neg_rm]

Arith2Inst(op, r1, r2, imm, cond) ==
  Inst("Arith2", op, cond, NoReg, r1, r2, NoReg, imm, <<>>, {}, 0)

Arith3Inst(op, rd, r1, r2, imm, cond) ==
  Inst("Arith3", op, cond, rd, r1, r2, NoReg, imm, <<>>, {}, 0)

Arith4Inst(op, rd, r1, r2, r3, cond) ==
  Inst("Arith4", op, cond, rd, r1, r2, r3, 0, <<>>, {}, 0)

\* LoadStoreInst with MemoryOperand(base, #imm)
LoadStoreInst(op, rd, base, imm, cond) ==
  Inst("LoadStore", op, cond, rd, base, NoReg, NoReg, imm, <<>>, {}, 0)

\* LoadStoreInst with MemoryOperand(base, index register)
LoadStoreIdx(op, rd, base, index, cond) ==
  Inst("LoadStore", op, cond, rd, base, index, NoReg, 0, <<>>, {}, 0)

\* LoadStoreInst whose memory operand is a label
LoadStoreLbl(op, rd, label, cond) ==
  Inst("LoadStore", op, cond, rd, NoReg, NoReg, NoReg, 0, label, {}, 0)

MultLoadStoreInst(op, rn, regs) ==
  Inst("MultLoadStore", op, "AL", NoReg, rn, NoReg, NoReg, 0, <<>>, regs, 0)

PushPopInst(op, regs) ==
  Inst("PushPop", op, "AL", NoReg, NoReg, NoReg, NoReg, 0, <<>>, regs, 0)

LabelInst(label) ==
  Inst("Label", "_Label", "AL", NoReg, NoReg, NoReg, NoReg, 0, label, {}, 0)

BrInst(op, label, cond, param_cnt) ==
  Inst("Br", op, cond, NoReg, NoReg, NoReg, NoReg, 0, label, {}, param_cnt)

CtrlInst(key, val) ==
  Inst("Ctrl", key, "AL", NoReg, NoReg, NoReg, NoReg, val, <<>>, {}, 0)

\* CtrlInst(key, val) with a val that holds no int (double, float, long
\* or std::string), and the is_asm_option flag
CtrlText(key, val_type, text, is_asm_option) ==
  [Inst("Ctrl", key, "AL", NoReg, NoReg, NoReg, NoReg, 0, text, {}, 0)
     EXCEPT !.val_type = val_type, !.is_asm_option = is_asm_option]

PureInst(op) ==
  Inst("Pure", op, "AL", NoReg, NoReg, NoReg, NoReg, 0, <<>>, {}, 0)

\* what std::move(f.inst[i]) leaves in f.inst: a null pointer
MovedFrom == PureInst("nullptr")

\* ------------------------------------------------------------------------
\* State
\* ------------------------------------------------------------------------
VARIABLES
  pc,            \* phase of alloc_regs: "construct", "liveness", "affinity",
                 \* "scan", "patch", "done", "failed"
  idx,           \* loop index i of perform_load_stores
  err,           \* the exception that ended the run ("" when none)
  in_inst,       \* history: the instruction list handed to the allocator
  f_inst,        \* arm::Function::inst
  f_stack_size,  \* arm::Function::stack_size
  f_is_leaf_func,\* arm::Function::is_leaf_func
  f_nparams,     \* f.ty->params.size()
  color_map,     \* VarId -> colour (-1: spilled); a VarId may be absent
  mir_to_arm,    \* VarId -> virtual register
  used_regs, used_regs_temp, point_bb_map, live_intervals, reg_map,
  reg_reverse_map, active, active_reg_map, spilled_regs, spill_positions,
  spilled_cross_block_reg, reg_assign_count, reg_affine, reg_collapse,
  inst_sink, bl_points, wrote_to, stack_size, stack_offset, delayed_store,
  bb_reset, is_leaf_func, cur_cond,
  imm_val,       \* the argument of a call of arm::is_valid_immediate: the
                 \* set of the bit positions that are 1 in the uint32_t
  imm_ok         \* what the call returned ("none": no call)

immVars == <<imm_val, imm_ok>>

inputVars == <<in_inst, f_stack_size, f_is_leaf_func, f_nparams, color_map, mir_to_arm>>

mapVars == <<reg_map, reg_reverse_map, spilled_cross_block_reg>>

liveVars == <<point_bb_map, live_intervals, reg_assign_count, reg_affine, bl_points>>

scanVars == <<used_regs_temp, active, active_reg_map, spilled_regs, spill_positions,
              inst_sink, wrote_to, stack_size, stack_offset, delayed_store,
              bb_reset, is_leaf_func, cur_cond>>

vars == <<pc, idx, err, f_inst, inputVars, mapVars, liveVars, scanVars,
          used_regs, reg_collapse, immVars>>

\* ------------------------------------------------------------------------
\* get_collapse_reg: chase reg_collapse to its root.  The C++ recursion
\* does not return on a cycle; Diverges reports that.
\* ------------------------------------------------------------------------
Diverges == 0 - 2

RECURSIVE collapse_chase(_, _, _)
collapse_chase(rc, r, seen) ==
  IF r \notin DOMAIN rc THEN r
  ELSE IF r \in seen THEN Diverges
  ELSE collapse_chase(rc, rc[r], seen \cup {r})

get_collapse_reg(r) == collapse_chase(reg_collapse, r, {})

\* ------------------------------------------------------------------------
\* The part of the allocator state the scan changes, as one record.
\* inst_ is f.inst[i] of the running iteration, whose operands are
\* rewritten in place; outside an iteration there is none
\* ------------------------------------------------------------------------
ScanState ==
  [active |-> active, arm |-> active_reg_map, spilled_regs |-> spilled_regs,
   spill_positions |-> spill_positions, stack_size |-> stack_size,
   inst_sink |-> inst_sink, used_regs_temp |-> used_regs_temp,
   delayed_store |-> delayed_store, wrote_to |-> wrote_to,
   bb_reset |-> bb_reset, is_leaf_func |-> is_leaf_func,
   stack_offset |-> stack_offset, cur_cond |-> cur_cond,
   inst_ |-> MovedFrom, err |-> "", ret |-> NoReg]

Throw(s, what) == [s EXCEPT !.err = what]

\* a get_or_alloc_spill_pos that hands out slots without growing the frame
spill_pos_without_growth(s, r) ==
  IF r \in DOMAIN s.spill_positions
  THEN [s EXCEPT !.ret = s.spill_positions[r]]
  ELSE [s EXCEPT !.ret = s.stack_size + SLOT_SIZE * Cardinality(DOMAIN s.spill_positions),
                 !.spill_positions =
                   MapInsert(s.spill_positions, r,
                             s.stack_size + SLOT_SIZE * Cardinality(DOMAIN s.spill_positions))]

\* a get_or_alloc_spill_pos that gives a new virtual the slot below the
\* top of the frame
spill_pos_below_top(s, r) ==
  IF r \in DOMAIN s.spill_positions
  THEN [s EXCEPT !.ret = s.spill_positions[r]]
  ELSE [s EXCEPT !.ret = s.stack_size - SLOT_SIZE,
                 !.stack_size = s.stack_size + SLOT_SIZE,
                 !.spill_positions =
                   MapInsert(s.spill_positions, r, s.stack_size - SLOT_SIZE)]

get_or_alloc_spill_pos(s, r) ==
  IF r \in DOMAIN s.spill_positions
  THEN [s EXCEPT !.ret = s.spill_positions[r]]
  ELSE [s EXCEPT !.ret = s.stack_size,
                 !.stack_size = s.stack_size + SLOT_SIZE,
                 !.spill_positions = MapInsert(s.spill_positions, r, s.stack_size)]

\* the int16_t a MemoryOperand keeps of an int offset (two's complement,
\* the low 16 bits)
to_int16(n) ==
  LET m == n % INT16_SPAN IN IF m >= INT16_SPAN \div 2 THEN m - INT16_SPAN ELSE m

\* the str / ldr the allocator inserts for virtual v kept in slot pos:
\* MemoryOperand(REG_SP, pos + stack_offset) narrows the sum to int16_t
SpillInst(op, phys, v, pos, s) ==
  [LoadStoreInst(op, phys, REG_SP, to_int16(pos + s.stack_offset), s.cur_cond)
     EXCEPT !.gv = v, !.gslot = pos]

\* operator== of the emitted instruction's memory operand with
\* MemoryOperand(REG_SP, off): the right-hand side has the narrowed
\* offset, no index register, MemoryAccessKind::None and neg_rm = false
MemIsSpOff(x, off) ==
  /\ x.r1 = REG_SP
  /\ x.r2 = NoReg
  /\ x.imm = to_int16(off)
  /\ x.mem_kind = "None"
  /\ ~x.neg_rm

alloc_using_temp(act) ==
  LET k == FirstIndex(TEMP_REGS, LAMBDA reg : reg \notin DOMAIN act)
  IN IF k = 0 THEN NoReg ELSE TEMP_REGS[k]

\* a GLOB_REGS loop that does not look at used_regs
glob_ignoring_used_regs(act) ==
  LET k == FirstIndex(GLOB_REGS, LAMBDA reg : reg \notin DOMAIN act)
  IN IF k = 0 THEN NoReg ELSE GLOB_REGS[k]

alloc_using_glob(act) ==
  LET k == FirstIndex(GLOB_REGS, LAMBDA reg : reg \notin DOMAIN act /\ reg \notin used_regs)
  IN IF k = 0 THEN NoReg ELSE GLOB_REGS[k]

\* an unsigned int handed to std::set<int>: UINT32_MAX arrives as -1
as_int(n) == IF n = PINNED_END THEN 0 - 1 ELSE n

\* bl_points.lower_bound(i.start) != bl_points.upper_bound(i.end), the two
\* unsigned bounds converted to the int key type of the set
crosses_bl(i) ==
  {b \in bl_points : b >= as_int(i.start)} # {b \in bl_points : b > as_int(i.end)}

\* the rest of a function body runs on the state the call before it
\* left, unless that call threw
Then(s, Rest(_)) == IF s.err # "" THEN s ELSE Rest(s)

\* an eviction that takes the first temporary register when there is
\* nothing to evict
evict_front_unchecked(s, i, orig) ==
  IF Len(s.arm) = 0
  THEN [s EXCEPT !.active = MapErase(s.active, TEMP_REGS[1]), !.ret = TEMP_REGS[1]]
  ELSE Then(get_or_alloc_spill_pos([s EXCEPT !.arm = Tail(s.arm)], s.arm[1][1]),
            LAMBDA s1 :
              [s1 EXCEPT
                 !.inst_sink = Append(s1.inst_sink,
                                  SpillInst("StR", s.arm[1][2], s.arm[1][1], s1.ret, s1)),
                 !.active = MapErase(s1.active, s.arm[1][2]),
                 !.ret = s.arm[1][2]])

\* the eviction arm of alloc_transient_reg (both pools exhausted)
evict_front(s, i, orig) ==
  IF Len(s.arm) = 0 THEN Throw(s, "runtime_error")
  ELSE IF s.arm[1][2] \notin DOMAIN s.active THEN Throw(s, "out_of_range")
  ELSE Then(get_or_alloc_spill_pos([s EXCEPT !.arm = Tail(s.arm)], s.arm[1][1]),
            LAMBDA s1 :
              LET spill_virt == s.arm[1][1]
                  spill_phys == s.arm[1][2]
                  interval == [s.active[spill_phys] EXCEPT !.start = i.start]
                  k == FirstIndex(s1.arm, LAMBDA e : e[1] = orig)
              IN [s1 EXCEPT
                    !.inst_sink = Append(s1.inst_sink,
                                     SpillInst("StR", spill_phys, spill_virt, s1.ret, s1)),
                    !.spilled_regs = MapInsert(s1.spilled_regs, spill_virt, interval),
                    !.arm = IF k = 0 THEN s1.arm ELSE RemoveAt(s1.arm, k),
                    !.active = MapErase(s1.active, spill_phys),
                    !.ret = spill_phys])

\* the two pools in the order the interval asks for; NoReg when both are
\* exhausted
\* pools tried in the same order whether or not the interval has a call
pools_temp_first(s, i) ==
  LET t == alloc_using_temp(s.active)
      g == alloc_using_glob(s.active)
  IN IF t # NoReg THEN t ELSE g

\* callee-saved registers tried first for every interval
pools_glob_first(s, i) ==
  LET t == alloc_using_temp(s.active)
      g == alloc_using_glob(s.active)
  IN IF g # NoReg THEN g ELSE t

alloc_from_pools(s, i) ==
  LET t == alloc_using_temp(s.active)
      g == alloc_using_glob(s.active)
  IN IF crosses_bl(i)
     THEN (IF g # NoReg THEN g ELSE t)
     ELSE (IF t # NoReg THEN t ELSE g)

\* an alloc_transient_reg that leaves a reused entry where it is in
\* active_reg_map
alloc_without_requeue(s, i, orig) ==
  LET k == IF orig # NoReg THEN FirstIndex(s.arm, LAMBDA e : e[1] = orig) ELSE 0
      r == alloc_from_pools(s, i)
  IN IF s.err # "" THEN s
     ELSE IF k # 0 THEN [s EXCEPT !.ret = s.arm[k][2]]
     ELSE Then(IF r = NoReg THEN evict_front(s, i, orig)
               ELSE [s EXCEPT !.ret = r,
                              !.used_regs_temp =
                                 IF r \in SeqRange(GLOB_REGS)
                                 THEN s.used_regs_temp \cup {r}
                                 ELSE s.used_regs_temp],
               LAMBDA s1 : [s1 EXCEPT !.active = MapInsert(s1.active, s1.ret, i),
                                      !.arm = IF orig # NoReg
                                              THEN Append(s1.arm, <<orig, s1.ret>>)
                                              ELSE s1.arm])

alloc_transient_reg(s, i, orig) ==
  LET k == IF orig # NoReg THEN FirstIndex(s.arm, LAMBDA e : e[1] = orig) ELSE 0
      r == alloc_from_pools(s, i)
  IN IF s.err # "" THEN s
     ELSE IF k # 0
     THEN [s EXCEPT !.arm = Append(RemoveAt(s.arm, k), s.arm[k]),
                    !.ret = s.arm[k][2]]
     ELSE Then(IF r = NoReg THEN evict_front(s, i, orig)
               ELSE [s EXCEPT !.ret = r,
                              !.used_regs_temp =
                                 IF r \in SeqRange(GLOB_REGS)
                                 THEN s.used_regs_temp \cup {r}
                                 ELSE s.used_regs_temp],
               LAMBDA s1 : [s1 EXCEPT !.active = MapInsert(s1.active, s1.ret, i),
                                      !.arm = IF orig # NoReg
                                              THEN Append(s1.arm, <<orig, s1.ret>>)
                                              ELSE s1.arm])

\* ------------------------------------------------------------------------
\* invalidate_read: drop every active register whose interval has ended,
\* with the first active_reg_map entry that maps to it
\* ------------------------------------------------------------------------
\* the entries of a sequence of <<index, entry>> pairs
StripIndex(q) == [k \in 1..Len(q) |-> q[k][2]]

\* an invalidate_read that frees the registers and keeps their map entries
invalidate_read_keeping_map(s, pos) ==
  IF s.err # "" THEN s
  ELSE [s EXCEPT !.active = [p \in {q \in DOMAIN s.active : s.active[q].end > pos}
                               |-> s.active[p]]]

invalidate_read(s, pos) ==
  LET dead == {p \in DOMAIN s.active : s.active[p].end <= pos}
      gone == {k \in 1..Len(s.arm) :
                 /\ s.arm[k][2] \in dead
                 /\ \A j \in 1..(k - 1) : s.arm[j][2] # s.arm[k][2]}
  IN IF s.err # "" THEN s
     ELSE [s EXCEPT !.active = [p \in (DOMAIN s.active) \ dead |-> s.active[p]],
                    !.arm = StripIndex(SelectSeq([k \in 1..Len(s.arm) |-> <<k, s.arm[k]>>],
                                                 LAMBDA e : e[1] \notin gone))]

\* ------------------------------------------------------------------------
\* force_free: spill whatever virtual occupies physical register r
\* ------------------------------------------------------------------------
\* a force_free that never erases the entry of the virtual it spills
force_free_keeping_entry(s, r, also_erase_map, write_back) ==
  LET k == FirstIndex(s.arm, LAMBDA e : e[2] = r)
  IN IF s.err # "" THEN s
     ELSE IF r \notin DOMAIN s.active \/ k = 0 THEN s
     ELSE Then(get_or_alloc_spill_pos(s, s.arm[k][1]),
               LAMBDA s1 :
                 LET y == s.arm[k]
                 IN [s1 EXCEPT
                       !.inst_sink = IF write_back
                                     THEN Append(s1.inst_sink,
                                                 SpillInst("StR", r, y[1], s1.ret, s1))
                                     ELSE s1.inst_sink,
                       !.spilled_regs = MapInsert(s1.spilled_regs, y[1], s1.active[r]),
                       !.active = MapErase(s1.active, r)])

force_free(s, r, also_erase_map, write_back) ==
  LET k == FirstIndex(s.arm, LAMBDA e : e[2] = r)
  IN IF s.err # "" THEN s
     ELSE IF r \notin DOMAIN s.active \/ k = 0 THEN s
     ELSE Then(get_or_alloc_spill_pos(s, s.arm[k][1]),
               LAMBDA s1 :
                 LET y == s.arm[k]
                     e == FirstIndex(s1.arm, LAMBDA z : z[1] = y[1])
                 IN [s1 EXCEPT
                       !.inst_sink = IF write_back
                                     THEN Append(s1.inst_sink,
                                                 SpillInst("StR", r, y[1], s1.ret, s1))
                                     ELSE s1.inst_sink,
                       !.spilled_regs = MapInsert(s1.spilled_regs, y[1], s1.active[r]),
                       !.active = MapErase(s1.active, r),
                       !.arm = IF also_erase_map THEN RemoveAt(s1.arm, e) ELSE s1.arm])

\* ------------------------------------------------------------------------
\* replace_read(Reg &r, int i): s.ret is the register r is replaced with
\* ------------------------------------------------------------------------
\* the peephole test of replace_read on the last emitted instruction
\* the test on inst_sink.back() in replace_read: "del" when the store is
\* cancelled, "emit" when the ldr is pushed.  x__ is the null result of
\* std::get_if<MemoryOperand> for a label operand, and *x__ is read once
\* op and rd have matched: the read through the null pointer ends the
\* process (SIGSEGV), "undefined"
read_peephole(s, rd, spill_pos) ==
  LET n == Len(s.inst_sink)
      x == s.inst_sink[n]
  IN IF n = 0 \/ x.kind # "LoadStore" THEN "emit"
     ELSE IF x.op # "StR" \/ x.rd # rd THEN "emit"
     ELSE IF x.r1 = NoReg THEN "undefined"
     ELSE IF MemIsSpOff(x, spill_pos + s.stack_offset) /\ x.cond = s.cur_cond THEN "del"
     ELSE "emit"

\* a reload that is emitted whatever the last output instruction is
read_spilled_always_loading(s, r, i) ==
  Then(get_or_alloc_spill_pos(s, r),
       LAMBDA s1 :
         Then(alloc_transient_reg([s1 EXCEPT !.spilled_regs = MapErase(s1.spilled_regs, r)],
                                  [s.spilled_regs[r] EXCEPT !.start = i], r),
              LAMBDA s2 :
                [s2 EXCEPT !.inst_sink =
                             Append(s2.inst_sink, SpillInst("LdR", s2.ret, r, s1.ret, s2))]))

\* the arm of replace_read for a register found in spilled_regs
read_spilled(s, r, i) ==
  Then(get_or_alloc_spill_pos(s, r),
       LAMBDA s1 :
         Then(alloc_transient_reg([s1 EXCEPT !.spilled_regs = MapErase(s1.spilled_regs, r)],
                                  [s.spilled_regs[r] EXCEPT !.start = i], r),
              LAMBDA s2 :
                LET del == read_peephole(s2, s2.ret, s1.ret)
                IN IF del = "undefined" THEN Throw(s2, "undefined")
                   ELSE IF del = "del"
                   THEN [s2 EXCEPT !.inst_sink =
                                      SubSeq(s2.inst_sink, 1, Len(s2.inst_sink) - 1),
                                   !.delayed_store = <<r, s2.ret>>]
                   ELSE [s2 EXCEPT !.inst_sink =
                                      Append(s2.inst_sink,
                                             SpillInst("LdR", s2.ret, r, s1.ret, s2))]))

replace_read(s, r0, i) ==
  LET r == get_collapse_reg(r0)
  IN IF s.err # "" THEN s
     ELSE IF r = Diverges THEN Throw(s, "no_return")
     ELSE IF ~is_virtual_register(r) THEN [s EXCEPT !.ret = r]
     ELSE IF r \in DOMAIN reg_map THEN [s EXCEPT !.ret = reg_map[r]]
     ELSE IF r \in DOMAIN s.spilled_regs THEN read_spilled(s, r, i)
     ELSE IF r \notin DOMAIN live_intervals THEN Throw(s, "out_of_range")
     ELSE alloc_transient_reg(s, live_intervals[r], r)

\* a replace_read(Operand2 &) that leaves a register operand as it is
operand2_left_unreplaced(s, r, i) == [s EXCEPT !.ret = r]

\* replace_read(Operand2 &) and the offset of replace_read(MemoryOperand &):
\* only a register operand is rewritten
replace_read_op2(s, r, i) == IF r = NoReg THEN [s EXCEPT !.ret = NoReg] ELSE replace_read(s, r, i)

\* ------------------------------------------------------------------------
\* pre_replace_write: s.ret is the ReplaceWriteAction; pre is the
\* pre_alloc_transient argument (NoReg when absent)
\* ------------------------------------------------------------------------
WriteAction(from, with, kind) == [from |-> from, replace_with |-> with, kind |-> kind]

\* the arm for a cross-block virtual
write_cross_block(s, r, i, pre) ==
  LET k == FirstIndex(s.arm, LAMBDA e : e[1] = r)
  IN IF pre # NoReg THEN [s EXCEPT !.ret = pre]
     ELSE IF k # 0
     THEN [s EXCEPT !.arm = Append(RemoveAt(s.arm, k), s.arm[k]), !.ret = s.arm[k][2]]
     ELSE IF r \notin DOMAIN live_intervals THEN Throw(s, "out_of_range")
     ELSE alloc_transient_reg(s, with_starting_point(live_intervals[r], i), r)

\* the arm for a register found in spilled_regs
write_spilled(s, r, i, pre) ==
  Then(get_or_alloc_spill_pos(s, r),
       LAMBDA s1 :
         IF pre # NoReg
         THEN [s1 EXCEPT !.spilled_regs = MapErase(s1.spilled_regs, r), !.ret = pre]
         ELSE alloc_transient_reg([s1 EXCEPT !.spilled_regs = MapErase(s1.spilled_regs, r)],
                                  [s.spilled_regs[r] EXCEPT !.start = i], r))

\* the arm for a transient
write_transient(s, r) ==
  IF r \notin DOMAIN live_intervals THEN Throw(s, "out_of_range")
  ELSE alloc_transient_reg(s, live_intervals[r], r)

\* a pre_replace_write that treats a graph-coloured virtual as a transient
write_ignoring_homes(s, r, i, pre) ==
  IF s.err # "" THEN s
  ELSE IF ~is_virtual_register(r)
  THEN Then(force_free(s, r, TRUE, TRUE),
            LAMBDA sp : [sp EXCEPT !.ret = WriteAction(r, r, "Phys")])
  ELSE IF r \in spilled_cross_block_reg
  THEN Then(write_cross_block(s, r, i, pre),
            LAMBDA sx : [sx EXCEPT !.ret = WriteAction(r, sx.ret, "Spill")])
  ELSE IF r \in DOMAIN s.spilled_regs
  THEN Then(write_spilled(s, r, i, pre),
            LAMBDA sd : [sd EXCEPT !.ret = WriteAction(r, sd.ret, "Spill")])
  ELSE Then(write_transient(s, r),
            LAMBDA st : [st EXCEPT !.ret = WriteAction(r, st.ret, "Transient")])

pre_replace_write(s, r0, i, pre) ==
  LET r == get_collapse_reg(r0)
  IN IF s.err # "" THEN s
     ELSE IF r = Diverges THEN Throw(s, "no_return")
     ELSE IF ~is_virtual_register(r)
     THEN Then(force_free(s, r, TRUE, TRUE),
               LAMBDA sp : [sp EXCEPT !.ret = WriteAction(r, r, "Phys")])
     ELSE IF r \in DOMAIN reg_map
     THEN [s EXCEPT !.ret = WriteAction(r, reg_map[r], "Graph")]
     ELSE IF r \in spilled_cross_block_reg
     THEN Then(write_cross_block(s, r, i, pre),
               LAMBDA sx : [sx EXCEPT !.ret = WriteAction(r, sx.ret, "Spill")])
     ELSE IF r \in DOMAIN s.spilled_regs
     THEN Then(write_spilled(s, r, i, pre),
               LAMBDA sd : [sd EXCEPT !.ret = WriteAction(r, sd.ret, "Spill")])
     ELSE Then(write_transient(s, r),
               LAMBDA st : [st EXCEPT !.ret = WriteAction(r, st.ret, "Transient")])

\* ------------------------------------------------------------------------
\* replace_write: commit a ReplaceWriteAction after the instruction
\* ------------------------------------------------------------------------
\* the peephole test of replace_write: the base register of the last
\* store is compared with rd
\* the test on inst_sink.back() in replace_write: "del" when no str is
\* pushed, "emit" when it is.  x__->r1 is read as soon as op is StR, x__
\* being null for a label operand: "undefined", the process is killed
write_peephole(s, rd, pos) ==
  LET n == Len(s.inst_sink)
      x == s.inst_sink[n]
  IN IF n = 0 \/ x.kind # "LoadStore" \/ x.op # "StR" THEN "emit"
     ELSE IF x.r1 = NoReg THEN "undefined"
     ELSE IF x.r1 = rd /\ x.cond = s.cur_cond /\ MemIsSpOff(x, pos + s.stack_offset)
     THEN "del"
     ELSE "emit"

replace_write(s, a, i) ==
  IF s.err # "" THEN s
  ELSE IF a.kind = "Phys"
  THEN [s EXCEPT !.active = MapInsert(s.active, a.replace_with, Interval(i, PINNED_END))]
  ELSE IF a.kind = "Spill"
  THEN Then(get_or_alloc_spill_pos(s, a.from),
            LAMBDA s1 :
              LET del == write_peephole(s1, a.replace_with, s1.ret)
              IN IF del = "undefined" THEN Throw(s1, "undefined")
                 ELSE [s1 EXCEPT !.inst_sink =
                                    IF del = "del" THEN s1.inst_sink
                                    ELSE Append(s1.inst_sink,
                                                SpillInst("StR", a.replace_with, a.from,
                                                          s1.ret, s1)),
                                 !.wrote_to = s1.wrote_to \ {a.from}])
  ELSE s

\* the store a pending delayed_store stands for, committed at instruction i
commit_delayed_store(s, i) ==
  IF s.err # "" \/ s.delayed_store = <<>> THEN s
  ELSE Then(replace_write(s, WriteAction(s.delayed_store[1], s.delayed_store[2], "Spill"), i),
            LAMBDA s1 : [s1 EXCEPT !.delayed_store = <<>>])

\* ------------------------------------------------------------------------
\* perform_load_stores: the body of the loop for instruction x = f.inst[i]
\* ------------------------------------------------------------------------
\* inst_sink.push_back(std::move(f.inst[i])): f.inst[i] is left null
Emit(s, x, i) ==
  [s EXCEPT !.inst_sink = Append(s.inst_sink, [x EXCEPT !.org = i, !.dly = s.delayed_store]),
            !.inst_ = MovedFrom]

\* the operand `operand` of f.inst[i] is r from now on
InPlace(s, operand, r) == [s EXCEPT !.inst_ = [s.inst_ EXCEPT ![operand] = r]]

\* a call that takes the operand of f.inst[i] as Reg &r: replace_read and
\* pre_replace_write begin with r = get_collapse_reg(r), and store the
\* register they chose into r only before they return; a call that throws
\* leaves the collapsed register in the instruction
CollapseInPlace(s, operand) ==
  LET r == get_collapse_reg(s.inst_[operand])
  IN IF r = Diverges THEN s ELSE InPlace(s, operand, r)

\* replace_read(x->operand, i), for a Reg, an Operand2 or the fields of a
\* MemoryOperand
ReadInPlace(s, operand, Call(_)) ==
  Then(Call(CollapseInPlace(s, operand)), LAMBDA s1 : InPlace(s1, operand, s1.ret))

\* pre_replace_write(x->operand, i)
WriteInPlace(s, operand, Call(_)) ==
  Then(Call(CollapseInPlace(s, operand)), LAMBDA s1 : InPlace(s1, operand, s1.ret.replace_with))

\* the write half shared by every instruction with a destination, the
\* operand `operand` of f.inst[i]:
\* wrote_to.insert(dst); pre_replace_write; push; replace_write.
\* pre is <<>>, or for MovT <<the original r1, the register r1 was read
\* as>>: MovT hands pre_replace_write a copy of r1, not the operand
write_half(s, operand, dst, i, pre) ==
  Then(IF pre = <<>>
       THEN WriteInPlace([s EXCEPT !.wrote_to = s.wrote_to \cup {dst}], operand,
                         LAMBDA q : pre_replace_write(q, dst, i, NoReg))
       ELSE pre_replace_write([s EXCEPT !.wrote_to = s.wrote_to \cup {dst}],
                              pre[1], i, pre[2]),
       LAMBDA s2 : replace_write(Emit(s2, s2.inst_, i), s2.ret, i))

scan_arith3(s, x, i) ==
  Then(ReadInPlace(s, "r1", LAMBDA q : replace_read(q, x.r1, i)), LAMBDA s1 :
  Then(ReadInPlace(s1, "r2", LAMBDA q : replace_read_op2(q, x.r2, i)), LAMBDA s2 :
  Then(invalidate_read(s2, i), LAMBDA s3 :
    write_half(s3, "rd", x.rd, i, <<>>))))

scan_arith4(s, x, i) ==
  Then(ReadInPlace(s, "r1", LAMBDA q : replace_read(q, x.r1, i)), LAMBDA s1 :
  Then(ReadInPlace(s1, "r2", LAMBDA q : replace_read(q, x.r2, i)), LAMBDA s2 :
  Then(ReadInPlace(s2, "r3", LAMBDA q : replace_read(q, x.r3, i)), LAMBDA s3 :
  Then(invalidate_read(s3, i), LAMBDA s4 :
    write_half(s4, "rd", x.rd, i, <<>>)))))

\* mov, mvn: r2 is read and r1 written
scan_mov(s, x, i) ==
  Then(ReadInPlace(s, "r2", LAMBDA q : replace_read_op2(q, x.r2, i)), LAMBDA m1 :
  Then(invalidate_read(m1, i), LAMBDA m2 :
    write_half(m2, "r1", x.r1, i, <<>>)))

\* movt: r1 is read, then written through pre_alloc_transient
scan_movt(s, x, i) ==
  Then(ReadInPlace(s, "r1", LAMBDA q : replace_read(q, x.r1, i)), LAMBDA t1 :
  Then(invalidate_read(t1, i), LAMBDA t2 :
    write_half(t2, "r1", t1.ret, i, <<x.r1, t1.ret>>)))

\* any other Arith2Inst (cmp, ...): both operands are read
scan_cmp(s, x, i) ==
  Then(ReadInPlace(s, "r1", LAMBDA q : replace_read(q, x.r1, i)), LAMBDA c1 :
  Then(ReadInPlace(c1, "r2", LAMBDA q : replace_read_op2(q, x.r2, i)), LAMBDA c2 :
  Then(invalidate_read(c2, i), LAMBDA c3 :
    Emit(c3, c3.inst_, i))))

scan_arith2(s, x, i) ==
  IF x.op \in {"Mov", "Mvn"} THEN scan_mov(s, x, i)
  ELSE IF x.op = "MovT" THEN scan_movt(s, x, i)
  ELSE scan_cmp(s, x, i)

\* replace_read(MemoryOperand &): the base, then a register offset
scan_mem(s, x, i) ==
  IF x.r1 = NoReg THEN s
  ELSE Then(ReadInPlace(s, "r1", LAMBDA q : replace_read(q, x.r1, i)), LAMBDA s1 :
         ReadInPlace(s1, "r2", LAMBDA q : replace_read_op2(q, x.r2, i)))

scan_loadstore(s, x, i) ==
  Then(scan_mem(s, x, i), LAMBDA sm :
    IF x.op = "LdR"
    THEN Then(invalidate_read(sm, i), LAMBDA l1 : write_half(l1, "rd", x.rd, i, <<>>))
    ELSE Then(ReadInPlace(sm, "rd", LAMBDA q : replace_read(q, x.rd, i)), LAMBDA w1 :
         Then(invalidate_read(w1, i), LAMBDA w2 :
           Emit(w2, w2.inst_, i))))

\* std::swap(*(inst_sink.end() - 2), *(inst_sink.end() - 1))
swap_last_two(q) ==
  [q EXCEPT ![Len(q) - 1] = q[Len(q)], ![Len(q)] = q[Len(q) - 1]]

scan_label(s, x, i) ==
  Then(Emit(invalidate_read(s, i), x, i), LAMBDA s1 :
    LET n == Len(s1.inst_sink)
        swap == /\ StrFind(x.label, PAT_LD_PC) = 0
                /\ n >= 2
                /\ s1.inst_sink[n - 1].kind = "LoadStore"
    IN [s1 EXCEPT !.inst_sink = IF swap THEN swap_last_two(s1.inst_sink) ELSE s1.inst_sink,
                  \* x->label.find(".bb" == 0): the argument is the bool
                  \* false, i.e. the character NUL, and any result other
                  \* than position 0 counts as true
                  !.bb_reset = IF StrFindChar(x.label, NUL) # 0 THEN TRUE ELSE s1.bb_reset])

\* the loop over active_reg_map of the `b` arm, from list position k
RECURSIVE bb_flush(_, _)
bb_flush(s, k) ==
  IF k > Len(s.arm) THEN s
  ELSE IF s.arm[k][1] \in spilled_cross_block_reg
  THEN Then(force_free(s, s.arm[k][2], FALSE, s.arm[k][1] \in s.wrote_to),
            LAMBDA s1 : bb_flush([s1 EXCEPT !.active = MapErase(s1.active, s.arm[k][2]),
                                            !.arm = RemoveAt(s1.arm, k)], k))
  ELSE bb_flush(s, k + 1)

RECURSIVE force_free_all(_, _)
force_free_all(s, regs) ==
  IF Len(regs) = 0 THEN s
  ELSE force_free_all(force_free(s, Head(regs), TRUE, TRUE), Tail(regs))

\* the `bl` arm
scan_bl(s, x, i) ==
  LET reg_cnt == Min2(x.param_cnt, MAX_REG_PARAMS)
  IN Then(force_free_all([s EXCEPT !.is_leaf_func = FALSE,
                                   !.active = [p \in (DOMAIN s.active) \ (0..(reg_cnt - 1))
                                                 |-> s.active[p]]],
                         [k \in 1..(MAX_REG_PARAMS - reg_cnt) |-> reg_cnt + k - 1]
                           \o <<REG_IP, REG_LR>>),
          LAMBDA b2 :
            [Emit(b2, x, i) EXCEPT
               !.active = [p \in (DOMAIN b2.active) \ CALL_CLOBBERED |-> b2.active[p]]])

\* the `b` arm
scan_b(s, x, i) ==
  IF s.bb_reset
  THEN Then(bb_flush(s, 1),
            LAMBDA f1 : Emit([f1 EXCEPT !.wrote_to = {}, !.bb_reset = FALSE], x, i))
  ELSE Emit(s, x, i)

scan_br(s, x, i) ==
  Then(invalidate_read(commit_delayed_store(s, i), i), LAMBDA s1 :
    IF x.op = "Bl" THEN scan_bl(s1, x, i)
    ELSE IF x.op = "B" THEN scan_b(s1, x, i)
    ELSE Emit(s1, x, i))

\* a CtrlInst arm that adds the value of every key to stack_offset
scan_ctrl_any_key(s, x, i) ==
  Emit(invalidate_read([s EXCEPT !.stack_offset = s.stack_offset + x.imm], i), x, i)

\* std::any_cast<int>(x->val) throws when val holds another type
scan_ctrl(s, x, i) ==
  IF x.op = "offset_stack" /\ x.val_type # "int" THEN Throw(s, "bad_any_cast")
  ELSE Emit(invalidate_read([s EXCEPT !.stack_offset =
                                         IF x.op = "offset_stack"
                                         THEN s.stack_offset + x.imm
                                         ELSE s.stack_offset], i),
            x, i)

\* a loop body that passes ldm/stm through like an instruction without
\* register operands
scan_kind_passing_ldm(s, x, i) ==
  CASE x.kind = "Arith3" -> scan_arith3(s, x, i)
    [] x.kind = "Arith4" -> scan_arith4(s, x, i)
    [] x.kind = "Arith2" -> scan_arith2(s, x, i)
    [] x.kind = "LoadStore" -> scan_loadstore(s, x, i)
    [] x.kind = "Label" -> scan_label(s, x, i)
    [] x.kind = "Br" -> scan_br(s, x, i)
    [] x.kind = "Ctrl" -> scan_ctrl(s, x, i)
    [] OTHER -> Emit(invalidate_read(s, i), x, i)

\* the arm of the loop body chosen by the dynamic type of the instruction
scan_kind(s, x, i) ==
  CASE x.kind = "Arith3" -> scan_arith3(s, x, i)
    [] x.kind = "Arith4" -> scan_arith4(s, x, i)
    [] x.kind = "Arith2" -> scan_arith2(s, x, i)
    [] x.kind = "LoadStore" -> scan_loadstore(s, x, i)
    [] x.kind = "MultLoadStore" -> Throw(s, "not_implemented")
    [] x.kind = "PushPop" -> Emit(invalidate_read(s, i), x, i)
    [] x.kind = "Label" -> scan_label(s, x, i)
    [] x.kind = "Br" -> scan_br(s, x, i)
    [] x.kind = "Ctrl" -> scan_ctrl(s, x, i)
    [] OTHER -> Emit(invalidate_read(s, i), x, i)

\* auto inst_ = &*f.inst[i]; cur_cond = inst_->cond; the arm; then the
\* pending delayed store
scan_inst(s, x, i) ==
  commit_delayed_store(scan_kind([s EXCEPT !.cur_cond = x.cond, !.inst_ = x], x, i), i)

\* ------------------------------------------------------------------------
\* construct_reg_map: one mir variable (var_id -> vreg_id) at a time, in
\* the order of the std::map
\* ------------------------------------------------------------------------
\* reg_reverse_map.insert({reg, vreg_id}) on the std::unordered_multimap,
\* kept as the sequence of its pairs in the order an equal_range visits
\* them: libstdc++ links a new element in front of the elements with an
\* equal key, so a key's elements are visited last inserted first
multimap_insert(mm, key, val) == <<<<key, val>>>> \o mm

\* reg_reverse_map.equal_range(key): the values, in visiting order
equal_range(mm, key) ==
  LET hits == SelectSeq(mm, LAMBDA z : z[1] = key)
  IN [k \in 1..Len(hits) |-> hits[k][2]]

RegMapState ==
  [reg_map |-> reg_map, reg_reverse_map |-> reg_reverse_map, used_regs |-> used_regs,
   spill_positions |-> spill_positions, stack_size |-> stack_size,
   spilled_cross_block_reg |-> spilled_cross_block_reg]

construct_one(m, var_id) ==
  LET vreg_id == mir_to_arm[var_id]
      color == color_map[var_id]
      reg == GLOB_REGS[color + 1]
  IN IF var_id \notin DOMAIN color_map THEN m
     ELSE IF color # 0 - 1
     THEN [m EXCEPT !.reg_map = MapInsert(m.reg_map, vreg_id, reg),
                    !.reg_reverse_map = multimap_insert(m.reg_reverse_map, reg, vreg_id),
                    !.used_regs = m.used_regs \cup {reg}]
     ELSE [m EXCEPT !.spill_positions = MapInsert(m.spill_positions, vreg_id, m.stack_size),
                    !.stack_size = m.stack_size + SLOT_SIZE,
                    !.spilled_cross_block_reg = m.spilled_cross_block_reg \cup {vreg_id}]

RECURSIVE construct_from(_, _)
construct_from(m, todo) ==
  IF todo = {} THEN m
  ELSE LET var_id == CHOOSE v \in todo : \A w \in todo : v <= w
       IN construct_from(construct_one(m, var_id), todo \ {var_id})

construct_reg_map_result == construct_from(RegMapState, DOMAIN mir_to_arm)

\* ------------------------------------------------------------------------
\* calc_live_intervals
\* ------------------------------------------------------------------------
LiveState ==
  [live_intervals |-> live_intervals, reg_assign_count |-> reg_assign_count,
   reg_affine |-> reg_affine, bl_points |-> bl_points, point_bb_map |-> point_bb_map,
   used_regs |-> used_regs, ub |-> FALSE]

\* point_bb_map.lower_bound(point); bb_iter--: undefined when no block
\* label precedes the point
add_reg_use_in_bb_at_point(l, reg, point) ==
  IF reg \in DOMAIN reg_map
  THEN [l EXCEPT !.used_regs = l.used_regs \cup {reg_map[reg]},
                 !.ub = l.ub \/ {k \in DOMAIN l.point_bb_map : k < point} = {}]
  ELSE l

add_reg_read(l, reg, point) ==
  add_reg_use_in_bb_at_point(
    [l EXCEPT !.live_intervals =
       IF reg \in DOMAIN l.live_intervals
       THEN [l.live_intervals EXCEPT ![reg] = add_ending_point(@, point)]
       ELSE MapInsert(l.live_intervals, reg, IntervalAt(point))],
    reg, point)

add_reg_write(l, reg, point) ==
  add_reg_use_in_bb_at_point(
    [l EXCEPT !.live_intervals =
       IF reg \in DOMAIN l.live_intervals
       THEN [l.live_intervals EXCEPT ![reg] = add_starting_point(@, point)]
       ELSE MapInsert(l.live_intervals, reg, IntervalAt(point)),
              !.reg_assign_count =
       IF reg \in DOMAIN l.reg_assign_count
       THEN [l.reg_assign_count EXCEPT ![reg] = @ + 1]
       ELSE MapInsert(l.reg_assign_count, reg, 1)],
    reg, point)

\* add_reg_read(Operand2 &): an immediate is no register
add_reg_read_op2(l, reg, point) == IF reg = NoReg THEN l ELSE add_reg_read(l, reg, point)

RECURSIVE add_reg_all(_, _, _, _)
add_reg_all(l, regs, point, is_write) ==
  IF regs = {} THEN l
  ELSE LET r == CHOOSE q \in regs : \A w \in regs : q <= w
       IN add_reg_all(IF is_write THEN add_reg_write(l, r, point) ELSE add_reg_read(l, r, point),
                      regs \ {r}, point, is_write)

\* std::stoi on a character sequence: white space, an optional sign, then
\* decimal digits up to the first other character.  The result is
\* Parsed(v), NoParse when there is no digit (std::invalid_argument is
\* thrown) or OutOfRange when the digits write a number no int holds
\* (std::out_of_range is thrown)
Parsed(v) == [what |-> "", val |-> v]
NoParse == [what |-> "invalid_argument", val |-> 0]
OutOfRange == [what |-> "out_of_range", val |-> 0]

INT_MAX == 2147483647

\* the vertical tab, for which a TLA+ string has no escape
VT == "\\v"

\* the characters std::isspace accepts in the "C" locale
IsSpace(ch) == ch \in {" ", "\t", "\n", VT, "\f", "\r"}

DigitVal == ("0" :> 0) @@ ("1" :> 1) @@ ("2" :> 2) @@ ("3" :> 3) @@ ("4" :> 4) @@
            ("5" :> 5) @@ ("6" :> 6) @@ ("7" :> 7) @@ ("8" :> 8) @@ ("9" :> 9)

\* the digits from position k on, added to the magnitude acc; the number
\* written is acc, or -acc when neg, and INT_MIN = -INT_MAX - 1
RECURSIVE stoi_digits(_, _, _, _)
stoi_digits(str, k, acc, neg) ==
  IF k > Len(str) \/ str[k] \notin DOMAIN DigitVal
  THEN Parsed(IF neg THEN 0 - acc ELSE acc)
  ELSE LET d == DigitVal[str[k]]
           last == k = Len(str) \/ str[k + 1] \notin DOMAIN DigitVal
       IN IF acc <= (INT_MAX - d) \div 10
          THEN stoi_digits(str, k + 1, acc * 10 + d, neg)
          ELSE IF neg /\ last /\ acc = INT_MAX \div 10 /\ d = 8
          THEN Parsed((0 - INT_MAX) - 1)
          ELSE OutOfRange

RECURSIVE stoi_from(_, _)
stoi_from(str, k) ==
  IF k > Len(str) THEN NoParse
  ELSE IF IsSpace(str[k]) THEN stoi_from(str, k + 1)
  ELSE LET signed == str[k] \in {"+", "-"}
           d == IF signed THEN k + 1 ELSE k
       IN IF d > Len(str) \/ str[d] \notin DOMAIN DigitVal THEN NoParse
          ELSE stoi_digits(str, d, 0, str[k] = "-")

stoi(str) == stoi_from(str, 1)

\* label.find_last_of("$"), 0-based, Npos when absent
find_last_of(str, ch) ==
  LET hits == {k \in 1..Len(str) : str[k] = ch}
  IN IF hits = {} THEN Npos ELSE (CHOOSE k \in hits : \A j \in hits : j <= k) - 1

\* label.substr(pos) with a 0-based pos
substr(str, pos) == SubSeq(str, pos + 1, Len(str))

\* an int converted to uint32_t, written as its two 16-bit halves
\* <<high, low>>: -4 is <<65535, 65532>>, 12 is <<0, 12>>
to_uint32(n) == <<(n \div INT16_SPAN) % INT16_SPAN, n % INT16_SPAN>>

\* a label handler that records block 0 for a `.bb_` label without an id
live_label_defaulting(l, x, i) ==
  LET bb_id == stoi(substr(x.label, find_last_of(x.label, "$") + 1))
  IN IF StrFind(x.label, PAT_BB) = 0
     THEN [l EXCEPT !.point_bb_map =
             MapInsert(l.point_bb_map, i,
                       to_uint32(IF bb_id.what # "" THEN 0 ELSE bb_id.val))]
     ELSE l

\* the LabelInst arm of calc_live_intervals: either exception of std::stoi
\* is caught and nothing is recorded; an int bb_id becomes the uint32_t
\* value of point_bb_map
live_label(l, x, i) ==
  LET bb_id_idx == find_last_of(x.label, "$")
      id_str == substr(x.label, bb_id_idx + 1)
      bb_id == stoi(id_str)
  IN IF StrFind(x.label, PAT_BB) = 0 /\ bb_id.what = ""
     THEN [l EXCEPT !.point_bb_map = MapInsert(l.point_bb_map, i, to_uint32(bb_id.val))]
     ELSE l

live_inst(l, x, i) ==
  CASE x.kind = "Arith4" ->
         add_reg_write(add_reg_read(add_reg_read(add_reg_read(l, x.r1, i), x.r2, i), x.r3, i),
                       x.rd, i)
    [] x.kind = "Arith3" ->
         add_reg_write(add_reg_read_op2(add_reg_read(l, x.r1, i), x.r2, i), x.rd, i)
    [] x.kind = "Arith2" ->
         LET w == add_reg_write(l, x.r1, i)
             a == IF /\ x.op = "Mov"
                     /\ x.r2 # NoReg
                     /\ x.shift_amount = 0
                     /\ ~is_virtual_register(x.r1)
                     /\ ~is_virtual_register(x.r2)
                  THEN [w EXCEPT !.reg_affine = MapInsert(w.reg_affine, x.r1, x.r2)]
                  ELSE w
         IN add_reg_read_op2(IF x.op \in {"Mov", "MovT", "Mvn"} THEN a
                             ELSE add_reg_read(l, x.r1, i),
                             x.r2, i)
    [] x.kind = "Br" ->
         IF x.op = "Bl" THEN [l EXCEPT !.bl_points = l.bl_points \cup {i}] ELSE l
    [] x.kind = "LoadStore" ->
         LET d == IF x.op = "LdR" THEN add_reg_write(l, x.rd, i) ELSE add_reg_read(l, x.rd, i)
         IN IF x.r1 # NoReg THEN add_reg_read_op2(add_reg_read(d, x.r1, i), x.r2, i) ELSE d
    [] x.kind = "MultLoadStore" ->
         add_reg_read(add_reg_all(l, x.regs, i, x.op = "LdM"), x.r1, i)
    [] x.kind = "PushPop" -> add_reg_all(l, x.regs, i, x.op = "Push")
    [] x.kind = "Label" -> live_label(l, x, i)
    [] OTHER -> l

RECURSIVE live_from(_, _, _)
live_from(l, insts, i) ==
  IF i >= Len(insts) THEN l
  ELSE live_from(live_inst(l, insts[i + 1], i), insts, i + 1)

calc_live_intervals_result == live_from(LiveState, f_inst, 0)

\* ------------------------------------------------------------------------
\* calc_reg_affinity: the loop body for one reg_affine entry (dst, src).
\* a = [live_intervals, reg_collapse, err]
\* ------------------------------------------------------------------------
AffState == [live_intervals |-> live_intervals, reg_collapse |-> reg_collapse, err |-> ""]

\* the loop over the range rev_it .. rev_it_end: skip reg_src, "throw"
\* when live_intervals.at(vr) throws, "overlaps" at the first vr whose
\* interval overlaps li (break: the registers behind it are not looked
\* at), "free" at the end of the range
RECURSIVE affine_range_walk(_, _, _, _)
affine_range_walk(a, range, skip, li) ==
  IF Len(range) = 0 THEN "free"
  ELSE IF Head(range) = skip THEN affine_range_walk(a, Tail(range), skip, li)
  ELSE IF Head(range) \notin DOMAIN a.live_intervals THEN "throw"
  ELSE IF overlaps(a.live_intervals[Head(range)], li) THEN "overlaps"
  ELSE affine_range_walk(a, Tail(range), skip, li)

\* the loop over reg_reverse_map.equal_range(home): does another virtual with
\* the same home overlap li?
affine_home_check(a, home, skip, li) ==
  affine_range_walk(a, equal_range(reg_reverse_map, home), skip, li)

affine_one(a, reg_dst, reg_src) ==
  LET \* src graph-coloured
      c1 == affine_home_check(a, reg_map[reg_src], reg_src, a.live_intervals[reg_dst])
      \* dst graph-coloured
      c2 == affine_home_check(a, reg_map[reg_dst], reg_src, a.live_intervals[reg_src])
      \* both local
      src_ == collapse_chase(a.reg_collapse, reg_src, {})
      dst_ == collapse_chase(a.reg_collapse, reg_dst, {})
      li_src == a.live_intervals[src_]
      li_dst == a.live_intervals[dst_]
  IN IF a.err # "" THEN a
     ELSE IF /\ reg_src \in DOMAIN reg_map
             /\ reg_dst \notin DOMAIN reg_map
             /\ reg_dst \notin spilled_cross_block_reg
             /\ reg_assign_count[reg_dst] = 1
     THEN IF reg_dst \notin DOMAIN a.live_intervals \/ c1 = "throw"
          THEN [a EXCEPT !.err = "out_of_range"]
          ELSE IF c1 = "free"
          THEN [a EXCEPT !.reg_collapse = MapInsert(a.reg_collapse, reg_dst, reg_src)]
          ELSE a
     ELSE IF /\ reg_dst \in DOMAIN reg_map
             /\ reg_src \notin DOMAIN reg_map
             /\ reg_src \notin spilled_cross_block_reg
     THEN IF reg_src \notin DOMAIN a.live_intervals \/ c2 = "throw"
          THEN [a EXCEPT !.err = "out_of_range"]
          ELSE IF c2 = "free"
          THEN [a EXCEPT !.reg_collapse = MapInsert(a.reg_collapse, reg_src, reg_dst)]
          ELSE a
     ELSE IF /\ reg_src \notin DOMAIN reg_map
             /\ reg_src \notin spilled_cross_block_reg
             /\ reg_dst \notin DOMAIN reg_map
             /\ reg_dst \notin spilled_cross_block_reg
     THEN IF src_ = Diverges \/ dst_ = Diverges THEN [a EXCEPT !.err = "no_return"]
          ELSE IF src_ \notin DOMAIN a.live_intervals \/ dst_ \notin DOMAIN a.live_intervals
          THEN [a EXCEPT !.err = "out_of_range"]
          ELSE IF ~overlaps(li_src, li_dst)
          THEN [a EXCEPT
                  !.live_intervals[src_] =
                      add_ending_point(add_starting_point(li_src, li_dst.start), li_dst.end),
                  !.reg_collapse = MapInsert(a.reg_collapse, dst_, src_)]
          ELSE a
     ELSE a

\* the loop of calc_reg_affinity over reg_affine in the order `order`
\* (a sequence of its keys: the iteration order of the unordered_map)
RECURSIVE calc_reg_affinity(_, _)
calc_reg_affinity(a, order) ==
  IF Len(order) = 0 THEN a
  ELSE calc_reg_affinity(affine_one(a, Head(order), reg_affine[Head(order)]), Tail(order))

\* every order in which a finite set can be iterated
Orders(S) == {q \in [1..Cardinality(S) -> S] : \A x \in S : \E k \in DOMAIN q : q[k] = x}

\* ------------------------------------------------------------------------
\* The tail of alloc_regs: patch the push/pop lists and the frame
\* ------------------------------------------------------------------------
\* f.inst.insert(f.inst.begin() + k, e) and f.inst.erase(f.inst.begin() + k)
VecInsert(q, k, e) == InsertAt(q, k + 1, e)

VecErase(q, k) == RemoveAt(q, k + 1)

use_stack_param == f_nparams > MAX_REG_PARAMS

patch_lists(q) ==
  LET used == used_regs \cup used_regs_temp
      drop == IF ~use_stack_param /\ stack_size = 0 THEN {REG_FP} ELSE {}
  IN [q EXCEPT ![1].regs = (@ \cup used) \ drop,
               ![Len(q)].regs = (@ \cup used) \ drop]

\* offset_size is taken after the insertions and before fp is erased
offset_size(q) == Cardinality(q[1].regs \cup used_regs \cup used_regs_temp) * 4

patch_frame(q0) ==
  LET off == offset_size(q0)
      q1 == patch_lists(q0)
      q2 == IF use_stack_param
            THEN VecInsert(q1, 2, Arith3Inst("Add", REG_FP, REG_FP, NoReg, off, "AL"))
            ELSE q1
      q3 == IF stack_size = 0
            THEN (IF ~use_stack_param THEN VecErase(q2, 1) ELSE q2)
            ELSE IF stack_size < FRAME_IMM_LIMIT
            THEN VecInsert(q2, 2, Arith3Inst("Sub", REG_SP, REG_SP, NoReg, stack_size, "AL"))
            ELSE VecInsert(VecInsert(q2, 2, Arith2Inst("Mov", REG_IP, NoReg, stack_size, "AL")),
                           3, Arith3Inst("Sub", REG_SP, REG_SP, REG_IP, 0, "AL"))
      q4 == IF stack_size = 0 THEN VecErase(q3, Len(q3) - 2) ELSE q3
      q5 == IF use_stack_param
            THEN VecInsert(q4, Len(q4) - 2, Arith3Inst("Sub", REG_FP, REG_FP, NoReg, off, "AL"))
            ELSE q4
      first_empty == q5[1].regs = {}
      last_empty == q5[Len(q5)].regs = {}
      q6 == IF first_empty THEN VecErase(q5, 0) ELSE q5
  IN IF last_empty THEN VecErase(q6, Len(q6) - 1) ELSE q6

\* ------------------------------------------------------------------------
\* Actions: the phases of RegAllocator::alloc_regs
\* ------------------------------------------------------------------------
ConstructRegMap ==
  /\ pc = "construct"
  /\ LET m == construct_reg_map_result
     IN /\ reg_map' = m.reg_map
        /\ reg_reverse_map' = m.reg_reverse_map
        /\ used_regs' = m.used_regs
        /\ spill_positions' = m.spill_positions
        /\ stack_size' = m.stack_size
        /\ spilled_cross_block_reg' = m.spilled_cross_block_reg
  /\ pc' = "liveness"
  /\ UNCHANGED <<immVars, idx, err, f_inst, inputVars, liveVars, reg_collapse, used_regs_temp,
                 active, active_reg_map, spilled_regs, inst_sink, wrote_to,
                 stack_offset, delayed_store, bb_reset, is_leaf_func, cur_cond>>

\* The decrement of point_bb_map.begin() is undefined behaviour: the run
\* either goes on (the block id read is garbage) or crashes.
CalcLiveIntervals ==
  /\ pc = "liveness"
  /\ LET l == calc_live_intervals_result
     IN \E crash \in (IF l.ub THEN BOOLEAN ELSE {FALSE}) :
          /\ live_intervals' = l.live_intervals
          /\ reg_assign_count' = l.reg_assign_count
          /\ reg_affine' = l.reg_affine
          /\ bl_points' = l.bl_points
          /\ point_bb_map' = l.point_bb_map
          /\ used_regs' = l.used_regs
          /\ pc' = IF crash THEN "failed" ELSE "affinity"
          /\ err' = IF crash THEN "undefined" ELSE err
  /\ UNCHANGED <<immVars, idx, f_inst, inputVars, mapVars, scanVars, reg_collapse>>

CalcRegAffinity ==
  /\ pc = "affinity"
  /\ \E order \in Orders(DOMAIN reg_affine) :
       LET a == calc_reg_affinity(AffState, order)
       IN /\ live_intervals' = a.live_intervals
          /\ reg_collapse' = a.reg_collapse
          /\ err' = a.err
          /\ pc' = IF a.err # "" THEN "failed"
                   ELSE IF Len(f_inst) = 0 THEN "patch" ELSE "scan"
  /\ idx' = 0
  /\ UNCHANGED <<immVars, f_inst, inputVars, mapVars, scanVars, used_regs, point_bb_map,
                 reg_assign_count, reg_affine, bl_points>>

\* one iteration of the loop of perform_load_stores.  f is the caller's
\* Function and outlives an exception: f.inst[i] is then what the
\* iteration made of it, its operands rewritten up to the call that
\* threw, or null when the throw came after the push_back.  The
\* allocator itself is destroyed by the exception
PerformLoadStores ==
  /\ pc = "scan"
  /\ idx < Len(f_inst)
  /\ \E s \in {scan_inst(ScanState, f_inst[idx + 1], idx)} :
       IF s.err # ""
       THEN /\ err' = s.err
            /\ pc' = "failed"
            /\ f_inst' = [f_inst EXCEPT ![idx + 1] = s.inst_]
            /\ UNCHANGED <<idx, scanVars>>
       ELSE /\ err' = err
            /\ f_inst' = [f_inst EXCEPT ![idx + 1] = s.inst_]
            /\ pc' = IF idx + 1 = Len(f_inst) THEN "patch" ELSE "scan"
            /\ idx' = idx + 1
            /\ active' = s.active
            /\ active_reg_map' = s.arm
            /\ spilled_regs' = s.spilled_regs
            /\ spill_positions' = s.spill_positions
            /\ stack_size' = s.stack_size
            /\ inst_sink' = s.inst_sink
            /\ used_regs_temp' = s.used_regs_temp
            /\ delayed_store' = s.delayed_store
            /\ wrote_to' = s.wrote_to
            /\ bb_reset' = s.bb_reset
            /\ is_leaf_func' = s.is_leaf_func
            /\ stack_offset' = s.stack_offset
            /\ cur_cond' = s.cur_cond
  /\ UNCHANGED <<immVars, inputVars, mapVars, liveVars, used_regs, reg_collapse>>

\* f.inst = std::move(inst_sink) and the prologue/epilogue patch.  Neither
\* alloc_regs nor optimize_func stores stack_size or is_leaf_func in f.
PatchPrologue ==
  /\ pc = "patch"
  /\ f_inst' = patch_frame(inst_sink)
  /\ inst_sink' = <<>>
  /\ pc' = "done"
  /\ UNCHANGED <<immVars, idx, err, inputVars, mapVars, liveVars, used_regs, reg_collapse,
                 used_regs_temp, active, active_reg_map, spilled_regs, spill_positions,
                 wrote_to, stack_size, stack_offset, delayed_store, bb_reset,
                 is_leaf_func, cur_cond>>

Next ==
  \/ ConstructRegMap
  \/ CalcLiveIntervals
  \/ CalcRegAffinity
  \/ PerformLoadStores
  \/ PatchPrologue

\* ------------------------------------------------------------------------
\* Inputs: a function is the selector's skeleton around a body
\*   push {fp, lr}; mov fp, sp; <body>; mov sp, fp; pop {fp, pc}
\* ------------------------------------------------------------------------
V1 == REG_V_GP_START
V2 == REG_V_GP_START + 1
V3 == REG_V_GP_START + 2

Skeleton(body) ==
  <<PushPopInst("Push", {REG_FP, REG_LR}), Arith2Inst("Mov", REG_FP, REG_SP, 0, "AL")>>
  \o body \o
  <<Arith2Inst("Mov", REG_SP, REG_FP, 0, "AL"), PushPopInst("Pop", {REG_FP, REG_PC})>>

\* the instructions of a sequence of instruction sequences, in order
RECURSIVE Concat(_)
Concat(qs) == IF Len(qs) = 0 THEN <<>> ELSE Head(qs) \o Concat(Tail(qs))

\* a body is up to n pieces of a menu; a piece is one instruction, or a
\* call with the argument moves that precede it
Bodies(menu, n) == {Concat(pieces) : pieces \in UNION {[1..k -> menu] : k \in 0..n}}

\* RegAllocator::RegAllocator and the member initialisers
InitAllocator(programs, configs) ==
  /\ in_inst \in programs
  /\ f_inst = in_inst
  /\ \E c \in configs :
       /\ color_map = c.color_map
       /\ mir_to_arm = c.mir_to_arm
       /\ f_nparams = c.nparams
       /\ f_stack_size = c.stack_size
       /\ f_is_leaf_func = c.is_leaf_func
  /\ stack_size = f_stack_size
  /\ pc = "construct"
  /\ idx = 0
  /\ err = ""
  /\ used_regs = {}
  /\ used_regs_temp = {}
  /\ point_bb_map = EmptyMap
  /\ live_intervals = EmptyMap
  /\ reg_map = EmptyMap
  /\ reg_reverse_map = <<>>
  /\ active = EmptyMap
  /\ active_reg_map = <<>>
  /\ spilled_regs = EmptyMap
  /\ spill_positions = EmptyMap
  /\ spilled_cross_block_reg = {}
  /\ reg_assign_count = EmptyMap
  /\ reg_affine = EmptyMap
  /\ reg_collapse = EmptyMap
  /\ inst_sink = <<>>
  /\ bl_points = {}
  /\ wrote_to = {}
  /\ stack_offset = 0
  /\ delayed_store = <<>>
  /\ bb_reset = TRUE
  /\ is_leaf_func = TRUE
  /\ cur_cond = "AL"

\* an allocator run: is_valid_immediate is not called
InitWith(programs, configs) ==
  /\ InitAllocator(programs, configs)
  /\ imm_val = {}
  /\ imm_ok = "none"

\* what the selector and the colouring pass hand to optimize_func
Config(cm, m2a, np, ss, leaf) ==
  [color_map |-> cm, mir_to_arm |-> m2a, nparams |-> np, stack_size |-> ss,
   is_leaf_func |-> leaf]

\* ------------------------------------------------------------------------
\* Bounds and the inputs of the specifications
\* ------------------------------------------------------------------------
MaxBody == 3

LBL_BB0 == <<".", "b", "b", "_", "f", "$", "0">>
LBL_BB1 == <<".", "b", "b", "_", "f", "$", "1">>
LBL_LD_PC == <<".", "l", "d", "_", "p", "c", "0">>
LBL_CALLEE == <<"g">>

\* mir variables 1..3 are the virtuals V1..V3; 4..10 are further variables
\* of the function that the body does not mention
VarsBody == [var_id \in 1..3 |-> REG_V_GP_START + var_id - 1]
VarsAll == [var_id \in 1..10 |-> REG_V_GP_START + var_id - 1]

\* no colouring information: every virtual is a local
ColorLocal == EmptyMap
\* V1 is a cross-block variable, V3 is coloured with r4, V2 is a local
ColorMixed == (1 :> (0 - 1)) @@ (3 :> 0)
\* V1 is a cross-block variable and the seven colours are all taken
ColorFull == (1 :> (0 - 1)) @@ [var_id \in 4..10 |-> var_id - 4]

\* bl with its register arguments: r0..r(n-1) are written, then the call
ArgSetup(n) == [k \in 1..n |-> Arith2Inst("Mov", k - 1, NoReg, 0, "AL")]

Call(n) == ArgSetup(Min2(n, MAX_REG_PARAMS)) \o <<BrInst("Bl", LBL_CALLEE, "AL", n)>>

Menu ==
  { <<Arith2Inst("Mov", V1, NoReg, 1, "AL")>>,
    <<Arith2Inst("Mov", V2, V1, 0, "EQ")>>,
    <<Arith2Inst("Cmp", V1, V2, 0, "AL")>>,
    <<Arith3Inst("Add", V2, V1, NoReg, 1, "AL")>>,
    <<Arith3Inst("Add", V3, V1, V2, 0, "AL")>>,
    <<LoadStoreInst("LdR", V2, V1, 0, "AL")>>,
    <<LoadStoreInst("StR", V1, V2, 0, "AL")>>,
    Call(1),
    <<BrInst("B", LBL_BB1, "AL", 0)>>,
    <<LabelInst(LBL_LD_PC)>>,
    <<CtrlInst("offset_stack", 4)>> }

\* a first block that defines V1 and branches to the block the body is in
BlockPrelude ==
  <<LabelInst(LBL_BB0), Arith2Inst("Mov", V1, NoReg, 1, "AL"),
    BrInst("B", LBL_BB1, "AL", 0), LabelInst(LBL_BB1)>>

Programs(pre, menu, n, post) ==
  {Skeleton(pre \o body \o post) : body \in Bodies(menu, n)}

\* Bodies of up to MaxBody pieces: alone with no colouring or with every
\* colour taken, and as a second block with a mixed colouring
Init ==
  \/ InitWith(Programs(<<>>, Menu, MaxBody, <<>>),
              { Config(ColorLocal, VarsBody, 0, 0, TRUE),
                Config(ColorFull, VarsAll, 0, 0, FALSE) })
  \/ InitWith(Programs(BlockPrelude, Menu, MaxBody, <<>>),
              { Config(ColorMixed, VarsBody, 0, 0, TRUE) })

Spec == Init /\ [][Next]_vars

\* Register pressure: every colour is taken and the body sits between the
\* argument moves of a four-argument call and the call, so that ip and lr
\* are the only registers left for the virtuals
MaxPressureBody == 2

PressureMenu ==
  { <<Arith2Inst("Mov", V1, NoReg, 1, "AL")>>,
    <<Arith2Inst("Mov", V2, NoReg, 2, "AL")>>,
    <<Arith3Inst("Add", V2, V1, NoReg, 1, "AL")>>,
    <<Arith4Inst("Mla", V3, V1, V2, V3, "AL")>>,
    <<LoadStoreIdx("StR", V1, V2, V3, "AL")>>,
    <<BrInst("B", LBL_BB1, "AL", 0)>> }

PressurePrelude ==
  <<Arith2Inst("Mov", V1, NoReg, 1, "AL"), Arith2Inst("Mov", V2, NoReg, 2, "AL"),
    Arith2Inst("Mov", V3, NoReg, 3, "AL")>> \o ArgSetup(MAX_REG_PARAMS)

InitPressure ==
  InitWith(Programs(PressurePrelude, PressureMenu, MaxPressureBody,
                    <<BrInst("Bl", LBL_CALLEE, "AL", MAX_REG_PARAMS)>>),
           { Config(ColorFull, VarsAll, 0, 0, TRUE),
             Config(ColorLocal, VarsBody, 0, 0, TRUE) })

SpecPressure == InitPressure /\ [][Next]_vars

\* Frames: the selector's stack sizes around the 1024 limit, with and
\* without stack-passed parameters
MaxFrameBody == 3

FrameMenu ==
  { <<Arith2Inst("Mov", V1, NoReg, 1, "AL")>>,
    <<Arith2Inst("Mov", V2, NoReg, 2, "AL")>>,
    <<Arith3Inst("Add", V3, V1, V2, 0, "AL")>>,
    Call(0) }

FrameSizes == {0, FRAME_IMM_LIMIT - 2 * SLOT_SIZE, FRAME_IMM_LIMIT - SLOT_SIZE}

FrameParams == {0, MAX_REG_PARAMS + 1}

InitFrame ==
  \/ InitWith(Programs(<<>>, FrameMenu, MaxFrameBody, <<>>),
              { Config(cm[1], cm[2], np, ss, TRUE) :
                  cm \in {<<ColorLocal, VarsBody>>, <<ColorFull, VarsAll>>},
                  np \in FrameParams, ss \in FrameSizes })
  \/ InitWith(Programs(BlockPrelude, FrameMenu, MaxFrameBody, <<>>),
              { Config(ColorMixed, VarsBody, np, ss, TRUE) :
                  np \in FrameParams, ss \in FrameSizes })

SpecFrame == InitFrame /\ [][Next]_vars

\* Bodies of register copies: between a virtual and r0, between virtuals,
\* between physical registers, and of a register to itself
MaxAffineBody == 3

AffineMenu ==
  { <<Arith2Inst("Mov", V1, 0, 0, "AL")>>,
    <<Arith3Inst("Add", V2, V1, NoReg, 1, "AL")>>,
    <<Arith2Inst("Mov", 0, V2, 0, "AL")>>,
    <<Arith2Inst("Mov", V2, V1, 0, "AL")>>,
    <<Arith2Inst("Mov", 0, 1, 0, "AL")>>,
    <<Arith2Inst("Mov", 1, 0, 0, "AL")>>,
    <<Arith2Inst("Mov", 0, 0, 0, "AL")>> }

\* mir variables whose registers are r1, V3 and V2, all three or the
\* first and the last coloured with r4: a copy from r1 makes
\* calc_reg_affinity walk the registers that share r4
VarsShared == (1 :> 1) @@ (2 :> V3) @@ (3 :> V2)
ColorShared == [var_id \in 1..3 |-> 0]
ColorPair == (1 :> 0) @@ (3 :> 0)

InitAffine ==
  InitWith(Programs(<<>>, AffineMenu, MaxAffineBody, <<>>),
           { Config(ColorLocal, VarsBody, 0, 0, TRUE),
             Config(ColorMixed, VarsBody, 0, 0, TRUE),
             Config(ColorShared, VarsShared, 0, 0, TRUE),
             Config(ColorPair, VarsShared, 0, 0, TRUE) })

SpecAffine == InitAffine /\ [][Next]_vars

\* Bodies with labels of every shape, ldm/stm, and a branch, with no
\* colouring or with V1 a cross-block variable
MaxLabelBody == 3

LBL_BB12 == <<".", "b", "b", "_", "f", "$", "1", "2">>
LBL_BB_LETTER == <<".", "b", "b", "_", "f", "$", "x">>
LBL_BB_NO_DOLLAR == <<".", "b", "b", "_", "f">>
LBL_BB_EMPTY == <<".", "b", "b", "_", "f", "$">>
LBL_BB_DIGIT_LETTER == <<".", "b", "b", "_", "f", "$", "1", "x">>
LBL_BB_TAB == <<".", "b", "b", "_", "f", "$", "\t", "5">>
LBL_BB_WIDE == <<".", "b", "b", "_", "f", "$", "2", "1", "4", "7", "4", "8", "3", "6", "4", "8">>
LBL_BB_MINUS == <<".", "b", "b", "_", "f", "$", "-", "4">>

LabelMenu ==
  { <<Arith2Inst("Mov", V1, NoReg, 1, "AL")>>,
    <<Arith3Inst("Add", V2, V1, NoReg, 1, "AL")>>,
    <<MultLoadStoreInst("LdM", V1, {V2})>>,
    <<MultLoadStoreInst("StM", V1, {V2})>>,
    <<LabelInst(LBL_BB1)>>,
    <<LabelInst(LBL_BB12)>>,
    <<LabelInst(LBL_BB_LETTER)>>,
    <<LabelInst(LBL_BB_NO_DOLLAR)>>,
    <<LabelInst(LBL_BB_EMPTY)>>,
    <<LabelInst(LBL_BB_DIGIT_LETTER)>>,
    <<LabelInst(LBL_BB_TAB)>>,
    <<LabelInst(LBL_BB_WIDE)>>,
    <<LabelInst(LBL_BB_MINUS)>>,
    <<LabelInst(LBL_LD_PC)>>,
    <<BrInst("B", LBL_BB1, "AL", 0)>> }

InitLabels ==
  InitWith(Programs(<<>>, LabelMenu, MaxLabelBody, <<>>),
           { Config(ColorLocal, VarsBody, 0, 0, TRUE),
             Config(ColorMixed, VarsBody, 0, 0, TRUE) })

SpecLabels == InitLabels /\ [][Next]_vars

\* Exhaustion: the four argument registers are written first, the body
\* may write ip and lr as well, and a four-argument call ends it; with
\* every colour taken no register is left for a virtual
MaxExhaustBody == 3

ExhaustMenu ==
  { <<Arith2Inst("Mov", REG_IP, NoReg, 1, "AL")>>,
    <<Arith2Inst("Mov", REG_LR, NoReg, 1, "AL")>>,
    <<Arith2Inst("Mov", V1, NoReg, 1, "AL")>>,
    <<Arith2Inst("Mov", V2, NoReg, 2, "AL")>>,
    <<Arith3Inst("Add", V3, V2, NoReg, 1, "AL")>>,
    <<Arith3Inst("Add", V3, V1, V2, 0, "AL")>> }

InitExhaust ==
  InitWith(Programs(ArgSetup(MAX_REG_PARAMS), ExhaustMenu, MaxExhaustBody,
                    <<BrInst("Bl", LBL_CALLEE, "AL", MAX_REG_PARAMS)>>),
           { Config(ColorFull, VarsAll, 0, 0, TRUE),
             Config(ColorLocal, VarsBody, 0, 0, TRUE) })

SpecExhaust == InitExhaust /\ [][Next]_vars

\* Stack offsets: bodies that move sp up and down around spills, with
\* V1 a cross-block variable or with every colour taken
MaxOffsetBody == 3

OffsetMenu ==
  { <<Arith2Inst("Mov", V1, NoReg, 1, "AL")>>,
    <<Arith3Inst("Add", V2, V1, NoReg, 1, "AL")>>,
    <<Arith3Inst("Add", V3, V1, V2, 0, "AL")>>,
    Call(1),
    <<BrInst("B", LBL_BB1, "AL", 0)>>,
    <<CtrlInst("offset_stack", 4)>>,
    <<CtrlInst("offset_stack", 0 - 4)>>,
    <<CtrlInst("align", 8)>> }

InitOffset ==
  \/ InitWith(Programs(<<>>, OffsetMenu, MaxOffsetBody, <<>>),
              { Config(ColorFull, VarsAll, 0, 0, TRUE) })
  \/ InitWith(Programs(BlockPrelude, OffsetMenu, MaxOffsetBody, <<>>),
              { Config(ColorMixed, VarsBody, 0, 0, TRUE) })

SpecOffset == InitOffset /\ [][Next]_vars

\* Pools: the argument registers are written first, the body may write
\* ip and lr and may call, so that either pool can run out while a
\* virtual lives across a call or between calls
MaxPoolBody == 3

PoolMenu ==
  { <<Arith2Inst("Mov", REG_IP, NoReg, 1, "AL")>>,
    <<Arith2Inst("Mov", REG_LR, NoReg, 1, "AL")>>,
    <<Arith2Inst("Mov", V1, NoReg, 1, "AL")>>,
    <<Arith3Inst("Add", V2, V1, NoReg, 1, "AL")>>,
    <<Arith3Inst("Add", V3, V1, V2, 0, "AL")>>,
    <<BrInst("Bl", LBL_CALLEE, "AL", 0)>> }

InitPool ==
  InitWith(Programs(ArgSetup(MAX_REG_PARAMS), PoolMenu, MaxPoolBody,
                    <<BrInst("Bl", LBL_CALLEE, "AL", MAX_REG_PARAMS)>>),
           { Config(ColorLocal, VarsBody, 0, 0, TRUE),
             Config(ColorMixed, VarsBody, 0, 0, TRUE),
             Config(ColorFull, VarsAll, 0, 0, TRUE) })

SpecPool == InitPool /\ [][Next]_vars

\* Wide frames: the selector's stack size reaches the 32768 bytes that the
\* 16-bit offset of a memory operand ends at; the argument registers are
\* written first, so that ip and lr are the registers left when every
\* colour is taken, and virtuals are read again after the call; the
\* bodies move sp and carry an assembler option whose value is a string
MaxWideBody == 3

WideFrame == INT16_SPAN \div 2

WideMenu ==
  { <<Arith2Inst("Mov", V1, NoReg, 1, "AL")>>,
    <<Arith3Inst("Add", V2, V1, NoReg, 1, "AL")>>,
    <<Arith3Inst("Add", V3, V1, V2, 0, "AL")>>,
    <<Arith2Inst("Mov", REG_IP, NoReg, 1, "AL")>>,
    <<CtrlInst("offset_stack", 4)>>,
    <<CtrlText("arch", "string", <<"a", "r", "m">>, TRUE)>> }

InitWide ==
  InitWith(Programs(ArgSetup(MAX_REG_PARAMS), WideMenu, MaxWideBody,
                    <<BrInst("Bl", LBL_CALLEE, "AL", MAX_REG_PARAMS),
                      Arith3Inst("Add", V3, V1, V2, 0, "AL")>>),
           { Config(ColorFull, VarsAll, 0, WideFrame, TRUE),
             Config(ColorLocal, VarsBody, 0, WideFrame - SLOT_SIZE, TRUE),
             Config(ColorLocal, VarsBody, 0, 0, TRUE) })

SpecWide == InitWide /\ [][Next]_vars

\* Chains of copies between the physical registers r0, r1 and r2, one of
\* them of a shifted register, with instructions that keep one of them
\* live across a copy
MaxChainBody == 3

ChainMenu ==
  { <<Arith2Inst("Mov", 0, 1, 0, "AL")>>,
    <<Arith2Inst("Mov", 1, 2, 0, "AL")>>,
    <<Arith2Inst("Mov", 2, 0, 0, "AL")>>,
    <<Arith2Inst("Mov", 1, 0, 0, "AL")>>,
    <<Arith2Inst("Mov", 2, 1, 0, "AL")>>,
    <<Arith2Inst("Mov", 0, NoReg, 1, "AL")>>,
    <<Arith3Inst("Add", 1, 0, NoReg, 1, "AL")>>,
    <<Arith3Inst("Add", V1, 2, NoReg, 1, "AL")>>,
    <<Shifted(Arith2Inst("Mov", 1, 0, 0, "AL"), "Lsl", 1)>> }

InitChain ==
  InitWith(Programs(<<>>, ChainMenu, MaxChainBody, <<>>),
           { Config(ColorLocal, VarsBody, 0, 0, TRUE),
             Config(ColorMixed, VarsBody, 0, 0, TRUE) })

SpecChain == InitChain /\ [][Next]_vars

\* Calls whose argument moves read virtuals, between definitions and uses
\* of V1 and V2 that make both live across the calls
MaxCallBody == 3

\* V1 is a local; six of the seven colours are taken, r10 is left
ColorSix == [var_id \in 4..9 |-> var_id - 4]

CallMenu ==
  { <<Arith3Inst("Add", V3, V1, V2, 0, "AL")>>,
    <<Arith3Inst("Add", V1, V1, NoReg, 1, "AL")>>,
    <<Arith2Inst("Mov", V3, 0, 0, "AL")>>,
    <<BrInst("Bl", LBL_CALLEE, "AL", 0)>>,
    <<Arith2Inst("Mov", 0, V1, 0, "AL"), BrInst("Bl", LBL_CALLEE, "AL", 1)>>,
    <<Arith2Inst("Mov", 0, V2, 0, "AL"), Arith2Inst("Mov", 1, V1, 0, "AL"),
      BrInst("Bl", LBL_CALLEE, "AL", 2)>> }

InitCall ==
  InitWith(Programs(<<Arith2Inst("Mov", V1, NoReg, 1, "AL"),
                      Arith2Inst("Mov", V2, NoReg, 1, "AL")>>,
                    CallMenu, MaxCallBody, <<>>),
           { Config(ColorLocal, VarsBody, 0, 0, FALSE),
             Config(ColorSix, VarsAll, 0, 0, FALSE),
             Config(ColorFull, VarsAll, 0, 0, FALSE) })

SpecCall == InitCall /\ [][Next]_vars

\* Blocks: definitions and reads of the cross-block variable V1 around
\* block labels, unconditional and conditional branches; alone, and as the
\* middle block of a layout whose defining block comes later in the text:
\*   b .bb_f$2; .bb_f$1: <body>; b .bb_f$3; .bb_f$2: mov V1, #1; b .bb_f$1;
\*   .bb_f$3:
MaxBlockBody == 4

LBL_BB2 == <<".", "b", "b", "_", "f", "$", "2">>
LBL_BB3 == <<".", "b", "b", "_", "f", "$", "3">>

BlockMenu ==
  { <<Arith2Inst("Mov", V1, NoReg, 1, "AL")>>,
    <<Arith3Inst("Add", V2, V1, NoReg, 1, "AL")>>,
    <<LabelInst(LBL_BB1)>>,
    <<BrInst("B", LBL_BB1, "AL", 0)>>,
    <<BrInst("B", LBL_BB1, "EQ", 0)>> }

InitBlocks ==
  \/ InitWith(Programs(<<>>, BlockMenu, MaxBlockBody, <<>>),
              { Config(ColorMixed, VarsBody, 0, 0, TRUE),
                Config(ColorFull, VarsAll, 0, 0, TRUE) })
  \/ InitWith(Programs(<<BrInst("B", LBL_BB2, "AL", 0), LabelInst(LBL_BB1)>>,
                       BlockMenu \ {<<LabelInst(LBL_BB1)>>}, MaxBlockBody - 1,
                       <<BrInst("B", LBL_BB3, "AL", 0), LabelInst(LBL_BB2),
                         Arith2Inst("Mov", V1, NoReg, 1, "AL"),
                         BrInst("B", LBL_BB1, "AL", 0), LabelInst(LBL_BB3)>>),
              { Config(ColorMixed, VarsBody, 0, 0, TRUE) })

SpecBlocks == InitBlocks /\ [][Next]_vars

\* A function of two parameters: copies of the incoming r0 and r1 and of
\* the value a call returns in r0, among definitions of virtuals
MaxParamBody == 3

NPARAMS == 2

ParamMenu ==
  { <<Arith2Inst("Mov", V1, 0, 0, "AL")>>,
    <<Arith2Inst("Mov", V2, 1, 0, "AL")>>,
    <<Arith2Inst("Mov", V3, 0, 0, "AL")>>,
    <<Arith2Inst("Mov", V3, NoReg, 1, "AL")>>,
    <<Arith3Inst("Add", V3, V1, V2, 0, "AL")>>,
    <<Arith2Inst("Mov", 0, V1, 0, "AL")>>,
    <<BrInst("Bl", LBL_CALLEE, "AL", 0)>> }

InitParams ==
  InitWith(Programs(<<>>, ParamMenu, MaxParamBody, <<>>),
           { Config(ColorLocal, VarsBody, NPARAMS, 0, FALSE),
             Config(ColorMixed, VarsBody, NPARAMS, 0, FALSE) })

SpecParams == InitParams /\ [][Next]_vars

\* Calls that count r0 as an argument although no instruction wrote r0
\* before them: a virtual is in r0 when the bl is reached.  The bodies
\* that follow read and write the virtuals and r0, directly after the
\* call or after writes of every TEMP register; every colour, six colours
\* or no colour is taken
MaxBareBody == 3

\* physical writes of r0..r3, ip and lr
PinTemps ==
  ArgSetup(MAX_REG_PARAMS) \o
  <<Arith2Inst("Mov", REG_IP, NoReg, 1, "AL"), Arith2Inst("Mov", REG_LR, NoReg, 1, "AL")>>

BareCall == BrInst("Bl", LBL_CALLEE, "AL", 1)

BareMenu ==
  { <<Arith3Inst("Add", V3, V2, NoReg, 1, "AL")>>,
    <<Arith2Inst("Mov", V3, V2, 0, "AL")>>,
    <<Arith2Inst("Mov", V3, NoReg, 1, "AL")>>,
    <<Arith2Inst("Mov", 0, V1, 0, "AL")>>,
    <<Arith2Inst("Mov", 0, NoReg, 1, "AL")>> }

InitBareCall ==
  \/ InitWith(Programs(<<Arith2Inst("Mov", V2, NoReg, 2, "AL"), BareCall>>,
                       BareMenu, MaxBareBody, <<>>),
              { Config(ColorFull, VarsAll, 0, 0, FALSE),
                Config(ColorLocal, VarsBody, 0, 0, FALSE) })
  \/ InitWith(Programs(<<Arith2Inst("Mov", V1, NoReg, 1, "AL"),
                         Arith2Inst("Mov", V2, NoReg, 2, "AL"), BareCall>>,
                       BareMenu, MaxBareBody, <<>>),
              { Config(ColorSix, VarsAll, 0, 0, FALSE) })
  \/ InitWith(Programs(<<Arith2Inst("Mov", V2, NoReg, 2, "AL"), BareCall>> \o PinTemps,
                       BareMenu, MaxBareBody, <<>>),
              { Config(ColorFull, VarsAll, 0, 0, FALSE) })

SpecBareCall == InitBareCall /\ [][Next]_vars

\* Bodies that write the callee-saved register r4 by its own name, among
\* definitions of virtuals and calls
MaxSavedBody == 3

SavedMenu ==
  { <<Arith2Inst("Mov", GLOB_REGS[1], NoReg, 1, "AL")>>,
    <<Arith2Inst("Mov", V1, NoReg, 1, "AL")>>,
    <<Arith3Inst("Add", V2, V1, NoReg, 1, "AL")>>,
    Call(0) }

InitSaved ==
  InitWith(Programs(<<>>, SavedMenu, MaxSavedBody, <<>>),
           { Config(ColorLocal, VarsBody, 0, 0, TRUE),
             Config(ColorMixed, VarsBody, 0, 0, TRUE) })

SpecSaved == InitSaved /\ [][Next]_vars

\* ------------------------------------------------------------------------
\* arm::is_valid_immediate.  A uint32_t is the set of the positions of its
\* 1 bits, so that the 32nd bit is a bit like the others.
\* ------------------------------------------------------------------------
WORD_BITS == 32
BitsBelow(n) == {b \in 0..(WORD_BITS - 1) : b < n}

\* prelude::rotl32(val, n): rotate the word left by n bits
rotl32(val, n) == {(b + n) % WORD_BITS : b \in val}

\* log2(val & -val): val & -val keeps the lowest 1 bit of val, a power of
\* two, and log2 gives its position
lowest_set_bit(val) == CHOOSE b \in val : \A c \in val : b <= c

\* 0xff << highest_bit, truncated to the word
shl_ff(highest_bit) ==
  {b \in 0..(WORD_BITS - 1) : highest_bit <= b /\ b <= highest_bit + 7}

\* int highest_bit = log2(val & -val) + 1;
\* return (val & ~(0xff << highest_bit)) == 0 && highest_bit % 2 == 0;
payload_fits(val) ==
  LET highest_bit == lowest_set_bit(val) + 1
  IN  /\ val \ shl_ff(highest_bit) = {}
      /\ highest_bit % 2 = 0

is_valid_immediate(val) ==
  IF val \subseteq BitsBelow(8) THEN TRUE               \* val <= 0xff
  ELSE IF val \subseteq BitsBelow(24) THEN payload_fits(val)   \* val <= 0x00ffffff
  ELSE payload_fits(rotl32(val, 8))

\* one call of is_valid_immediate
ApplyImm ==
  /\ imm_ok = "call"
  /\ imm_ok' = IF is_valid_immediate(imm_val) THEN "true" ELSE "false"
  /\ UNCHANGED <<pc, idx, err, f_inst, inputVars, mapVars, liveVars, scanVars,
                 used_regs, reg_collapse, imm_val>>

NextImm == ApplyImm

\* The arguments: every pattern of MaxImmWidth adjacent bits, at every
\* position of the word, wrapping around its end.  The allocator is idle.
MaxImmWidth == 9

ImmInputs == {rotl32(w, n) : w \in SUBSET BitsBelow(MaxImmWidth), n \in 0..(WORD_BITS - 1)}

InitImm ==
  /\ InitAllocator({Skeleton(<<>>)}, {Config(ColorLocal, VarsBody, 0, 0, TRUE)})
  /\ imm_val \in ImmInputs
  /\ imm_ok = "call"

SpecImm == InitImm /\ [][NextImm]_vars

\* ------------------------------------------------------------------------
\* What an instruction reads and writes: the operand positions the arms
\* of perform_load_stores pass to replace_read and pre_replace_write
\* ------------------------------------------------------------------------
ReadFields(x) ==
  CASE x.kind = "Arith3" -> {"r1", "r2"}
    [] x.kind = "Arith4" -> {"r1", "r2", "r3"}
    [] x.kind = "Arith2" /\ x.op \in {"Mov", "Mvn"} -> {"r2"}
    [] x.kind = "Arith2" /\ x.op = "MovT" -> {"r1"}
    [] x.kind = "Arith2" /\ x.op \notin {"Mov", "Mvn", "MovT"} -> {"r1", "r2"}
    [] x.kind = "LoadStore" /\ x.op = "LdR" -> {"r1", "r2"}
    [] x.kind = "LoadStore" /\ x.op # "LdR" -> {"rd", "r1", "r2"}
    [] OTHER -> {}

\* the operand position written, "" when the instruction writes none
WriteField(x) ==
  CASE x.kind \in {"Arith3", "Arith4"} -> "rd"
    [] x.kind = "Arith2" /\ x.op \in {"Mov", "Mvn", "MovT"} -> "r1"
    [] x.kind = "LoadStore" /\ x.op = "LdR" -> "rd"
    [] OTHER -> ""

Writes(x, r) == WriteField(x) # "" /\ x[WriteField(x)] = r

\* ------------------------------------------------------------------------
\* Values.  A value is named by the index of the input instruction that
\* computed it; every predicated instruction is taken to execute.
\* ------------------------------------------------------------------------
NoValue == 0 - 1
Clobbered == 0 - 2

\* the value of register or slot k in a partial map
Val(m, k) == IF k \in DOMAIN m THEN m[k] ELSE NoValue

\* the input: the instruction before index i that last wrote register r
last_def(r, i) ==
  LET defs == {j \in 0..(i - 1) : Writes(in_inst[j + 1], r)}
  IN IF defs = {} THEN NoValue ELSE CHOOSE j \in defs : \A k \in defs : k <= j

\* the output: registers and spill slots
Machine(reg, mem) == [reg |-> reg, mem |-> mem]

IsSpillInst(y) == y.kind = "LoadStore" /\ y.org = NoReg /\ y.gslot # NoReg

\* one output instruction: a call clobbers r0-r3, ip and lr; an inserted
\* str/ldr moves a value between its register and its slot; an input
\* instruction leaves its own value in its destination
exec(m, y) ==
  IF y.kind = "Br" /\ y.op = "Bl"
  THEN Machine([r \in (DOMAIN m.reg) \cup CALL_CLOBBERED |->
                  IF r \in CALL_CLOBBERED THEN Clobbered ELSE m.reg[r]], m.mem)
  ELSE IF IsSpillInst(y) /\ y.op = "StR"
  THEN Machine(m.reg, MapPut(m.mem, y.gslot, Val(m.reg, y.rd)))
  ELSE IF IsSpillInst(y)
  THEN Machine(MapPut(m.reg, y.rd, Val(m.mem, y.gslot)), m.mem)
  ELSE IF WriteField(y) # ""
  THEN Machine(MapPut(m.reg, y[WriteField(y)], IF y.org = NoReg THEN Clobbered ELSE y.org),
               m.mem)
  ELSE m

\* the machine just before each instruction of out, from position k on
RECURSIVE machines(_, _, _)
machines(out, k, m) ==
  IF k > Len(out) THEN <<>>
  ELSE <<m>> \o machines(out, k + 1, exec(m, out[k]))

Boot == Machine(EmptyMap, EmptyMap)

Before(out) == machines(out, 1, Boot)

\* the scan has consumed the whole input: inst_sink is its output
ScanDone == pc = "patch"

\* ------------------------------------------------------------------------
\* C1  Liveness preservation
\* ------------------------------------------------------------------------
\* the reads of virtual registers that instruction y makes in the input
VirtualReads(y) ==
  {fld \in ReadFields(in_inst[y.org + 1]) :
     /\ is_virtual_register(in_inst[y.org + 1][fld])
     /\ last_def(in_inst[y.org + 1][fld], y.org) # NoValue}

\* every virtual read of y finds, in the physical register it was
\* rewritten to, the value last written to the virtual
ReadsPreserved(m, y) ==
  y.org # NoReg =>
    \A fld \in VirtualReads(y) :
      Val(m.reg, y[fld]) = last_def(in_inst[y.org + 1][fld], y.org)

\* C1: in the output of perform_load_stores, whenever a read of a virtual
\* register v was rewritten to a physical register p, p holds at that
\* instruction the value most recently written to v.
C1_LivenessPreserved ==
  ScanDone =>
    \E before \in {Before(inst_sink)} :
      \A k \in 1..Len(inst_sink) : ReadsPreserved(before[k], inst_sink[k])

\* ------------------------------------------------------------------------
\* C2  No virtual register is left
\* ------------------------------------------------------------------------
RegFields == {"rd", "r1", "r2", "r3"}

AllPhysical(out) ==
  \A k \in 1..Len(out) : \A fld \in RegFields : ~is_virtual_register(out[k][fld])

\* C2: after alloc_regs every register operand of every output
\* instruction (destination, sources, Operand2 register, memory base and
\* index) is a physical register.
C2_NoVirtuals == pc = "done" => AllPhysical(f_inst)

\* the input had virtual registers as a destination, a source, an
\* Operand2 register and a memory base, and alloc_regs returned
C2_Witness ==
  /\ pc = "done"
  /\ \E i \in 1..Len(in_inst) :
       /\ in_inst[i].kind = "Arith3"
       /\ is_virtual_register(in_inst[i].rd)
       /\ is_virtual_register(in_inst[i].r1)
       /\ is_virtual_register(in_inst[i].r2)
  /\ \E i \in 1..Len(in_inst) :
       /\ in_inst[i].kind = "LoadStore"
       /\ is_virtual_register(in_inst[i].rd)
       /\ is_virtual_register(in_inst[i].r1)

\* ------------------------------------------------------------------------
\* C3  Eager write-back of cross-block virtuals
\* ------------------------------------------------------------------------
\* at a branch that ends a block, the slot of every cross-block virtual
\* written so far holds the value last written to it
HomesCurrent(m, y) ==
  (y.kind = "Br" /\ y.op = "B") =>
    \A v \in spilled_cross_block_reg :
      last_def(v, y.org) # NoValue =>
        Val(m.mem, spill_positions[v]) = last_def(v, y.org)

\* C3: for every cross-block virtual v and every block that writes v, the
\* output has, after the last write and before the block's branch, a str
\* of the register holding v to v's slot, so that at the branch the slot
\* holds v's latest value.
C3_EagerWriteBack ==
  ScanDone =>
    \E before \in {Before(inst_sink)} :
      \A k \in 1..Len(inst_sink) : HomesCurrent(before[k], inst_sink[k])

\* ------------------------------------------------------------------------
\* C4  Peephole soundness
\* ------------------------------------------------------------------------
\* y consumes a virtual whose reload was elided (delayed_store was set
\* while its operands were rewritten): the register holds the virtual
ElidedReloadHolds(m, y) ==
  (y.org # NoReg /\ y.dly # <<>>) =>
    Val(m.reg, y.dly[2]) = last_def(y.dly[1], y.org)

\* C4: whenever replace_read removes the last emitted str of rd to v's
\* slot and emits no ldr, rd holds v's current value at the instruction
\* that consumes it.
C4_PeepholeSound ==
  ScanDone =>
    \E before \in {Before(inst_sink)} :
      \A k \in 1..Len(inst_sink) : ElidedReloadHolds(before[k], inst_sink[k])

\* ------------------------------------------------------------------------
\* C5  Callee-save completeness
\* ------------------------------------------------------------------------
CalleeSaved == SeqRange(GLOB_REGS)

\* the callee-saved registers some instruction between the push and the
\* pop writes
WrittenCalleeSaved(q) ==
  {r \in CalleeSaved : \E k \in 2..(Len(q) - 1) : Writes(q[k], r)}

SavedCalleeSaved(x) == x.regs \cap CalleeSaved

FramedByPushPop(q) ==
  /\ Len(q) >= 2
  /\ q[1].kind = "PushPop" /\ q[1].op = "Push"
  /\ q[Len(q)].kind = "PushPop" /\ q[Len(q)].op = "Pop"

\* C5 as stated: after alloc_regs the list of the leading push and of the
\* trailing pop holds exactly the callee-saved registers r4..r10 that
\* some instruction of the rewritten body writes.
C5_SavesExactlyWritten ==
  pc = "done" =>
    /\ FramedByPushPop(f_inst)
    /\ SavedCalleeSaved(f_inst[1]) = WrittenCalleeSaved(f_inst)
    /\ SavedCalleeSaved(f_inst[Len(f_inst)]) = WrittenCalleeSaved(f_inst)

\* what patch_lists puts in the lists: used_regs and used_regs_temp
ListsAreUsedRegs ==
  pc = "done" =>
    /\ SavedCalleeSaved(f_inst[1]) = used_regs \cup used_regs_temp
    /\ SavedCalleeSaved(f_inst[Len(f_inst)]) = used_regs \cup used_regs_temp

\* the body writes a callee-saved register that the lists do not hold
WrittenNotSaved ==
  /\ pc = "done"
  /\ WrittenCalleeSaved(f_inst) \ SavedCalleeSaved(f_inst[1]) # {}

\* ------------------------------------------------------------------------
\* C6  Frame sizing
\* ------------------------------------------------------------------------
IsSubSp(x) == x.kind = "Arith3" /\ x.op = "Sub" /\ x.rd = REG_SP /\ x.r1 = REG_SP

SubSpAt(q) == {k \in 1..Len(q) : IsSubSp(q[k])}

\* the amount the prologue of q takes from sp
FrameTaken(q) ==
  IF SubSpAt(q) = {} THEN 0
  ELSE LET k == CHOOSE j \in SubSpAt(q) : TRUE
       IN IF q[k].r2 = NoReg THEN q[k].imm
          ELSE IF k > 1 /\ q[k - 1].kind = "Arith2" /\ q[k - 1].op = "Mov"
                  /\ q[k - 1].r1 = q[k].r2 /\ q[k - 1].r2 = NoReg
          THEN q[k - 1].imm
          ELSE NoValue

\* C6: with S the stack_size after the scan (the initial stack_size plus
\* 4 for every spill slot), the prologue has no sp adjustment when S = 0,
\* `sub sp, sp, #S` when 0 < S < 1024, and `mov ip, #S; sub sp, sp, ip`
\* when S >= 1024; the amount taken from sp is S and every slot of an
\* emitted str/ldr is below S.
C6_FrameSizing ==
  pc = "done" =>
    /\ stack_size = f_stack_size + SLOT_SIZE * Cardinality(DOMAIN spill_positions)
    /\ Cardinality(SubSpAt(f_inst)) = IF stack_size = 0 THEN 0 ELSE 1
    /\ FrameTaken(f_inst) = stack_size
    /\ \A k \in SubSpAt(f_inst) :
         IF stack_size < FRAME_IMM_LIMIT
         THEN f_inst[k].r2 = NoReg
         ELSE f_inst[k].r2 = REG_IP /\ f_inst[k - 1].r1 = REG_IP
    /\ \A k \in 1..Len(f_inst) :
         IsSpillInst(f_inst[k]) => f_inst[k].gslot < stack_size

\* slots allocated during the scan took the frame from below 1024 to
\* 1024 or more, and a str or ldr uses such a slot
C6_Witness ==
  /\ pc = "done"
  /\ f_stack_size < FRAME_IMM_LIMIT
  /\ stack_size >= FRAME_IMM_LIMIT
  /\ \E k \in 1..Len(f_inst) : IsSpillInst(f_inst[k]) /\ f_inst[k].gslot >= f_stack_size

\* ------------------------------------------------------------------------
\* C7, C8  The fields of the Function after alloc_regs
\* ------------------------------------------------------------------------
\* C7: after alloc_regs returns, the Function's stack_size equals the
\* allocator's final stack size: the initial stack_size plus 4 for every
\* spill slot allocated.
C7_FunctionStackSize ==
  pc = "done" => f_stack_size = stack_size

HasBl(q) == \E k \in 1..Len(q) : q[k].kind = "Br" /\ q[k].op = "Bl"

\* C8: after alloc_regs returns, the Function's is_leaf_func is false if
\* and only if the input instruction list has a bl.
C8_FunctionIsLeaf ==
  pc = "done" => ((f_is_leaf_func = FALSE) <=> HasBl(in_inst))

\* ------------------------------------------------------------------------
\* C9  Ordering
\* ------------------------------------------------------------------------
\* the input indices of the output instructions that came from the input
FromInput(out) == SelectSeq([k \in 1..Len(out) |-> out[k].org], LAMBDA o : o # NoReg)

\* an inserted ldr is followed, after inserted spill instructions only,
\* by an input instruction that reads the loaded register
LoadBeforeConsumer(out, k) ==
  \E j \in (k + 1)..Len(out) :
    /\ out[j].org # NoReg
    /\ \A h \in (k + 1)..(j - 1) : IsSpillInst(out[h])
    /\ \E fld \in ReadFields(out[j]) : out[j][fld] = out[k].rd

\* C9: the output instructions that came from the input are the input
\* sequence in its order, none reordered, duplicated or dropped, and every
\* inserted ldr is immediately before the instruction that consumes it.
C9_Ordering ==
  ScanDone =>
    /\ FromInput(inst_sink) = [k \in 1..Len(in_inst) |-> k - 1]
    /\ \A k \in 1..Len(inst_sink) :
         (IsSpillInst(inst_sink[k]) /\ inst_sink[k].op = "LdR")
           => LoadBeforeConsumer(inst_sink, k)

\* ------------------------------------------------------------------------
\* C10  Invariant 1: active and active_reg_map agree
\* ------------------------------------------------------------------------
\* the active_reg_map entries that map some virtual to physical p
EntriesOf(p) == {k \in 1..Len(active_reg_map) : active_reg_map[k][2] = p}

\* p was occupied by a direct physical write (replace_write, kind Phys)
Pinned(p) == active[p].end = PINNED_END

\* C10: at every instruction boundary of the scan, every physical
\* register in active has exactly one active_reg_map entry, except the
\* registers occupied by a direct physical write, which have none.
C10_ActiveAgrees ==
  pc \in {"scan", "patch"} =>
    \A p \in DOMAIN active :
      Cardinality(EntriesOf(p)) = IF Pinned(p) THEN 0 ELSE 1

\* the scan is between two instructions with a pinned register and a
\* mapped register in active, after a force_free has spilled a virtual
\* and an interval has ended
C10_Witness ==
  /\ pc = "scan"
  /\ \E p \in DOMAIN active : Pinned(p)
  /\ \E p \in DOMAIN active : ~Pinned(p)
  /\ DOMAIN spilled_regs # {}
  /\ \E v \in DOMAIN live_intervals :
       /\ live_intervals[v].end < idx
       /\ \A k \in 1..Len(active_reg_map) : active_reg_map[k][1] # v

\* ------------------------------------------------------------------------
\* C11  Invariant 2: the classes of a virtual register
\* ------------------------------------------------------------------------
\* the virtuals that have an active_reg_map entry
VirtualsInMap == {active_reg_map[k][1] : k \in 1..Len(active_reg_map)}

BetweenInstructions == pc \in {"scan", "patch"}

\* C11 as stated: between two instructions of the scan every virtual is
\* in exactly one of: key of reg_map, member of spilled_cross_block_reg,
\* present in active_reg_map, or none; no member of
\* spilled_cross_block_reg and no key of reg_map is in active_reg_map.
C11_ExactlyOneClass ==
  BetweenInstructions =>
    /\ DOMAIN reg_map \cap spilled_cross_block_reg = {}
    /\ VirtualsInMap \cap DOMAIN reg_map = {}
    /\ VirtualsInMap \cap spilled_cross_block_reg = {}

\* C11 amended: between two instructions of the scan no virtual is both a
\* key of reg_map and a member of spilled_cross_block_reg, and no key of
\* reg_map is in active_reg_map; a member of spilled_cross_block_reg is in
\* active_reg_map while a register holds it inside a block.
C11_HomesApart ==
  BetweenInstructions =>
    /\ DOMAIN reg_map \cap spilled_cross_block_reg = {}
    /\ VirtualsInMap \cap DOMAIN reg_map = {}

\* a cross-block virtual sits in active_reg_map after the scan rewrote an
\* instruction that names a graph-coloured virtual
C11_Witness ==
  /\ pc = "scan"
  /\ VirtualsInMap \cap spilled_cross_block_reg # {}
  /\ \E k \in 1..Len(inst_sink) :
       /\ inst_sink[k].org # NoReg
       /\ \E fld \in RegFields : in_inst[inst_sink[k].org + 1][fld] \in DOMAIN reg_map

\* ------------------------------------------------------------------------
\* C12  Invariant 3: reg_collapse is acyclic
\* ------------------------------------------------------------------------
AffinityDone == pc \in {"scan", "patch", "done"}

\* C12: for every input instruction list, after calc_reg_affinity
\* reg_collapse has no cycle and no self-mapping r -> r, so
\* get_collapse_reg(r) terminates for every register r.
C12_CollapseAcyclic ==
  AffinityDone =>
    \A r \in DOMAIN reg_collapse :
      /\ reg_collapse[r] # r
      /\ get_collapse_reg(r) # Diverges

\* ------------------------------------------------------------------------
\* C13  Call clobber
\* ------------------------------------------------------------------------
\* the virtuals of the input that have no graph-coloured home
Uncoloured == {v \in DOMAIN live_intervals : is_virtual_register(v) /\ v \notin DOMAIN reg_map}

\* instruction j of the input reads register v
ReadsReg(j, v) == \E fld \in ReadFields(in_inst[j + 1]) : in_inst[j + 1][fld] = v

\* v is written before input index b and its next access after b is a read
LiveAcross(v, b) ==
  /\ last_def(v, b) # NoValue
  /\ \E j \in (b + 1)..(Len(in_inst) - 1) :
       /\ ReadsReg(j, v)
       /\ \A h \in (b + 1)..(j - 1) : ~Writes(in_inst[h + 1], v)

IsBl(y) == y.kind = "Br" /\ y.op = "Bl"

\* some bl index lies in [I.start, I.end]
CallWithin(I) == \E b \in bl_points : I.start <= b /\ b <= I.end

\* the instruction just processed was a bl
AfterCall ==
  /\ pc \in {"scan", "patch"}
  /\ idx > 0
  /\ idx <= Len(in_inst)
  /\ in_inst[idx].kind = "Br"
  /\ in_inst[idx].op = "Bl"

\* ahead of the bl that was just emitted, register p was stored to the
\* spill slot of v and not written again
StoredAhead(v, p) ==
  \E j \in 1..(Len(inst_sink) - 1) :
    /\ IsSpillInst(inst_sink[j])
    /\ inst_sink[j].op = "StR"
    /\ inst_sink[j].rd = p
    /\ inst_sink[j].gv = v
    /\ \A k \in (j + 1)..(Len(inst_sink) - 1) : ~Writes(inst_sink[k], p)

\* C13: a virtual with no graph-coloured home whose live interval has a
\* bl is given a callee-saved register whenever one is free and not in
\* used_regs; the callee-saved registers given to transients are in the
\* list of the leading push; and no such virtual is still mapped to r0..r3,
\* r12 or lr once a bl is processed unless that register was stored to
\* the virtual's spill slot before the bl.
C13_CallClobber ==
  /\ pc = "scan" =>
       \A v \in Uncoloured \ VirtualsInMap :
         (crosses_bl(live_intervals[v]) /\ alloc_using_glob(active) # NoReg)
           => alloc_transient_reg(ScanState, live_intervals[v], v).ret \in CalleeSaved
  /\ AfterCall =>
       \A k \in 1..Len(active_reg_map) :
         (/\ active_reg_map[k][1] \in Uncoloured
          /\ CallWithin(live_intervals[active_reg_map[k][1]])
          /\ active_reg_map[k][2] \in CALL_CLOBBERED)
           => StoredAhead(active_reg_map[k][1], active_reg_map[k][2])
  /\ pc = "done" => used_regs_temp \subseteq f_inst[1].regs

\* `mov v, #1; ...; bl; ...` with v read after the call: v was given r4,
\* r4 holds v at the bl, and r4 is pushed
C13_Witness ==
  /\ pc = "done"
  /\ GLOB_REGS[1] \in used_regs_temp
  /\ GLOB_REGS[1] \in f_inst[1].regs
  /\ \E k \in 1..Len(f_inst) :
       /\ IsBl(f_inst[k])
       /\ \E v \in Uncoloured :
            /\ LiveAcross(v, f_inst[k].org)
            /\ \E j \in 1..(k - 1) :
                 /\ f_inst[j].org # NoReg
                 /\ Writes(in_inst[f_inst[j].org + 1], v)
                 /\ Writes(f_inst[j], GLOB_REGS[1])

\* ------------------------------------------------------------------------
\* C14  Unsupported construct: ldm/stm
\* ------------------------------------------------------------------------
\* the scan stopped at input index idx: the instructions before it were
\* moved to inst_sink, the others are still the input's, and f.inst was
\* not replaced
StoppedAt(i) ==
  /\ Len(f_inst) = Len(in_inst)
  /\ \A k \in 1..Len(f_inst) : f_inst[k] = IF k <= i THEN MovedFrom ELSE in_inst[k]
  /\ \A k \in 1..Len(inst_sink) : inst_sink[k].org = NoReg \/ inst_sink[k].org < i

\* C14: when the scan reaches a MultLoadStoreInst it raises the
\* not-implemented error and the allocation stops: no further instruction
\* is rewritten and no output list is installed in the Function.
C14_UnsupportedAborts ==
  /\ (pc = "scan" /\ f_inst[idx + 1].kind = "MultLoadStore")
       => scan_inst(ScanState, f_inst[idx + 1], idx).err = "not_implemented"
  /\ (pc = "failed" /\ err = "not_implemented")
       => /\ in_inst[idx + 1].kind = "MultLoadStore"
          /\ StoppedAt(idx)
          /\ ~ENABLED PerformLoadStores
          /\ ~ENABLED PatchPrologue

\* the scan rewrote an instruction with a virtual register, then stopped
\* at an ldm/stm that has input instructions after it
C14_Witness ==
  /\ pc = "failed"
  /\ err = "not_implemented"
  /\ \E k \in 1..Len(inst_sink) : inst_sink[k].kind \in {"Arith2", "Arith3"}
                                   /\ inst_sink[k].org > 1
  /\ idx + 3 < Len(in_inst)

\* ------------------------------------------------------------------------
\* C15  Malformed block label
\* ------------------------------------------------------------------------
DigitChars == <<"0", "1", "2", "3", "4", "5", "6", "7", "8", "9">>

IsDigit(ch) == \E d \in 1..Len(DigitChars) : DigitChars[d] = ch

\* the text after the last `$` of a label, the whole label without a `$`
SuffixOf(label) ==
  LET at == {k \in 1..Len(label) : label[k] = "$"}
  IN IF at = {} THEN label
     ELSE SubSeq(label, (CHOOSE k \in at : \A j \in at : j <= k) + 1, Len(label))

BlankChars == {" ", "\t", "\n", "\f", "\r", VT}

\* the digits that start at position k of t, up to the first other
\* character, without their leading zeros
DigitsAt(t, k) ==
  LET stop == {j \in k..(Len(t) + 1) : j > Len(t) \/ ~IsDigit(t[j])}
      to == (CHOOSE j \in stop : \A h \in stop : j <= h) - 1
      nz == {j \in k..to : t[j] # "0"}
  IN IF nz = {} THEN <<>> ELSE SubSeq(t, CHOOSE j \in nz : \A h \in nz : j <= h, to)

\* the number a string of digits writes
RECURSIVE DecimalValue(_)
DecimalValue(t) ==
  IF Len(t) = 0 THEN 0
  ELSE 10 * DecimalValue(SubSeq(t, 1, Len(t) - 1))
       + (CHOOSE d \in 0..9 : DigitChars[d + 1] = t[Len(t)])

\* the digits write a number of at most `most`, a ten-digit number
AtMost(run, most) ==
  \/ Len(run) < 10
  \/ /\ Len(run) = 10
     /\ LET head == DecimalValue(SubSeq(run, 1, 9))
            last == DecimalValue(SubSeq(run, 10, 10))
        IN head < most \div 10 \/ (head = most \div 10 /\ last <= most % 10)

\* the text is, after white space, an optional sign and digits that write
\* a number of the range of int (-2147483648..2147483647); anything may
\* follow the digits
ParsesAsInteger(t) ==
  \E k \in 1..Len(t) :
    /\ \A j \in 1..(k - 1) : t[j] \in BlankChars
    /\ \/ IsDigit(t[k]) /\ AtMost(DigitsAt(t, k), INT_MAX)
       \/ /\ t[k] = "+" /\ k < Len(t) /\ IsDigit(t[k + 1])
          /\ AtMost(DigitsAt(t, k + 1), INT_MAX)
       \/ /\ t[k] = "-" /\ k < Len(t) /\ IsDigit(t[k + 1])
          /\ \/ AtMost(DigitsAt(t, k + 1), INT_MAX)
             \/ DigitsAt(t, k + 1) = <<"2", "1", "4", "7", "4", "8", "3", "6", "4", "8">>

AllDigits(t) == Len(t) > 0 /\ \A k \in 1..Len(t) : IsDigit(t[k])

BeginsWith(label, pat) == Len(label) >= Len(pat) /\ SubSeq(label, 1, Len(pat)) = pat

\* the 0-based indices of the input's labels that begin with `.bb_`
BlockLabels ==
  {i \in 0..(Len(in_inst) - 1) :
     in_inst[i + 1].kind = "Label" /\ BeginsWith(in_inst[i + 1].label, PAT_BB)}

LivenessDone == pc \notin {"construct", "liveness"}

\* the unsigned 32-bit value n as point_bb_map keeps it
Stored(n) == <<n \div INT16_SPAN, n % INT16_SPAN>>

\* C15: a label beginning with `.bb_` whose text after the last `$` (the
\* whole label when it has no `$`) does not parse as an integer gets no
\* point_bb_map entry, raises no error, and the analysis goes on to the
\* following instructions; a label `.bb_<name>$<id>` at index i gives
\* point_bb_map[i] = id.
C15_BlockLabels ==
  LivenessDone =>
    /\ err # "undefined"
    /\ \A i \in BlockLabels :
         LET t == SuffixOf(in_inst[i + 1].label)
         IN /\ ~ParsesAsInteger(t) => i \notin DOMAIN point_bb_map
            /\ (AllDigits(t) /\ ParsesAsInteger(t)) =>
                  (i \in DOMAIN point_bb_map
                   /\ point_bb_map[i] = Stored(DecimalValue(DigitsAt(t, 1))))
    /\ \A j \in 1..Len(in_inst) :
         in_inst[j].kind \in {"Arith2", "Arith3"} => in_inst[j].r1 \in DOMAIN live_intervals

\* liveness analysis ran over a label `.bb_...` without an id, a label
\* with a two-digit id after it, and an instruction after both
C15_Witness ==
  /\ pc = "affinity"
  /\ \E i, j \in BlockLabels :
       /\ i < j
       /\ ~ParsesAsInteger(SuffixOf(in_inst[i + 1].label))
       /\ j \in DOMAIN point_bb_map
       /\ point_bb_map[j] = Stored(12)
       /\ in_inst[j + 2].kind = "Arith3"

\* ------------------------------------------------------------------------
\* C16  Allocation failure
\* ------------------------------------------------------------------------
\* a register of either pool that alloc_transient_reg may hand out
PoolFree ==
  \/ \E reg \in SeqRange(TEMP_REGS) : reg \notin DOMAIN active
  \/ \E reg \in SeqRange(GLOB_REGS) : reg \notin DOMAIN active /\ reg \notin used_regs

\* the virtuals with a live interval that hold no register
Inactive ==
  {v \in DOMAIN live_intervals :
     /\ is_virtual_register(v)
     /\ \A k \in 1..Len(active_reg_map) : active_reg_map[k][1] # v}

\* C16: between two instructions of the scan, alloc_transient_reg for a
\* virtual that is not active returns a register whenever a pool has a
\* free register or active_reg_map is not empty; it fails with "Failed
\* to allocate" exactly when both pools are exhausted and active_reg_map
\* is empty; it fails in no other way, in this call or in the calls the
\* scan made.
C16_AllocationFailure ==
  /\ pc = "scan" =>
       \A v \in Inactive :
         LET out == alloc_transient_reg(ScanState, live_intervals[v], v)
         IN /\ (PoolFree \/ Len(active_reg_map) > 0) =>
                 /\ out.err = ""
                 /\ out.ret \in SeqRange(TEMP_REGS) \cup SeqRange(GLOB_REGS)
                 /\ out.ret \in DOMAIN out.active
                 /\ out.arm[Len(out.arm)] = <<v, out.ret>>
            /\ out.err = "runtime_error" <=> (~PoolFree /\ Len(active_reg_map) = 0)
            /\ out.err \in {"", "runtime_error"}
  /\ pc = "failed" => err = "runtime_error"

\* the scan stopped on "Failed to allocate"
C16_Witness == pc = "failed" /\ err = "runtime_error"

\* the scan is between two instructions with both pools exhausted, a
\* virtual in active_reg_map and another virtual waiting for a register
C16_WitnessEvict ==
  pc = "scan" /\ ~PoolFree /\ Len(active_reg_map) > 0 /\ Inactive # {}

\* ------------------------------------------------------------------------
\* C17  Identity coalescing
\* ------------------------------------------------------------------------
\* mov v64, r0; add v65, v64, #1; mov r0, v65
CopyInIncrementCopyOut ==
  <<Arith2Inst("Mov", V1, 0, 0, "AL"),
    Arith3Inst("Add", V2, V1, NoReg, 1, "AL"),
    Arith2Inst("Mov", 0, V2, 0, "AL")>>

IsAddR0R0One(x) ==
  x.kind = "Arith3" /\ x.op = "Add" /\ x.rd = 0 /\ x.r1 = 0 /\ x.r2 = NoReg /\ x.imm = 1

\* a register copy into or out of r0
IsCopyOfR0(x) == x.kind = "Arith2" /\ x.op = "Mov" /\ (x.r1 = 0 \/ x.r2 = 0)

CoalescingCase ==
  pc = "done" /\ in_inst = Skeleton(CopyInIncrementCopyOut) /\ color_map = ColorLocal

\* C17: for the input mov v64, r0; add v65, v64, #1; mov r0, v65 with no
\* colouring, the output contains add r0, r0, #1 and neither of the two
\* copies.
C17_IdentityCoalescing ==
  CoalescingCase =>
    /\ \E k \in 1..Len(f_inst) : IsAddR0R0One(f_inst[k])
    /\ \A k \in 1..Len(f_inst) : ~IsCopyOfR0(f_inst[k])

\* the part of C17 the allocator does deliver: the increment is on r0
C17_AddOnR0 ==
  CoalescingCase => \E k \in 1..Len(f_inst) : IsAddR0R0One(f_inst[k])

\* ------------------------------------------------------------------------
\* C18  Stack arguments: the fp adjustment
\* ------------------------------------------------------------------------
IsPush(x) == x.kind = "PushPop" /\ x.op = "Push"

IsPop(x) == x.kind = "PushPop" /\ x.op = "Pop"

\* add fp, fp, #n  /  sub fp, fp, #n
IsFpAdjust(x, op, n) ==
  /\ x.kind = "Arith3" /\ x.op = op /\ x.org = NoReg
  /\ x.rd = REG_FP /\ x.r1 = REG_FP /\ x.r2 = NoReg /\ x.imm = n

FpAdjusts == {k \in 1..Len(f_inst) :
                f_inst[k].kind = "Arith3" /\ f_inst[k].org = NoReg /\ f_inst[k].rd = REG_FP}

\* four times the number of registers in the final push list
SavedBytes == 4 * Cardinality(f_inst[1].regs)

\* the number of instructions that allocate the frame
FrameSetupLen ==
  IF stack_size = 0 THEN 0 ELSE IF stack_size < FRAME_IMM_LIMIT THEN 1 ELSE 2

\* C18 as stated: with more than 4 parameters the instruction right after
\* the leading push is add fp, fp, #(4*N) and the instruction right
\* before the trailing pop is sub fp, fp, #(4*N), N the number of
\* registers in the final push list; with at most 4 parameters neither
\* is emitted.
C18_FpAdjustAdjacent ==
  pc = "done" =>
    IF use_stack_param
    THEN /\ IsPush(f_inst[1])
         /\ IsFpAdjust(f_inst[2], "Add", SavedBytes)
         /\ IsPop(f_inst[Len(f_inst)])
         /\ IsFpAdjust(f_inst[Len(f_inst) - 1], "Sub", SavedBytes)
    ELSE FpAdjusts = {}

\* where the code puts them: sub fp, fp, #(4*N) is the third instruction
\* from the end, whatever that makes it precede; add fp, fp, #(4*N)
\* follows push, mov fp, sp and the frame allocation, and also the sub
\* when the sub landed there
SubFpAt == Len(f_inst) - 2

AddFpAt == 3 + FrameSetupLen + (IF SubFpAt <= 3 + FrameSetupLen THEN 1 ELSE 0)

C18_FpAdjustPlaced ==
  pc = "done" =>
    IF use_stack_param
    THEN /\ IsPush(f_inst[1])
         /\ f_inst[2] = [in_inst[2] EXCEPT !.org = 1]
         /\ IsFpAdjust(f_inst[AddFpAt], "Add", SavedBytes)
         /\ IsPop(f_inst[Len(f_inst)])
         /\ IsFpAdjust(f_inst[SubFpAt], "Sub", SavedBytes)
         /\ FpAdjusts = {AddFpAt, SubFpAt}
    ELSE FpAdjusts = {}

\* with no frame the sub lands ahead of the last instruction of the body
C18_SubAheadOfBody ==
  ~(/\ pc = "done"
    /\ use_stack_param
    /\ f_inst[Len(f_inst) - 1].org # NoReg
    /\ f_inst[Len(f_inst) - 1].org < Len(in_inst) - 2)

\* ------------------------------------------------------------------------
\* C19  Epilogue frame-restore
\* ------------------------------------------------------------------------
\* the input's frame-restore instruction is in the output
RestoreKept == \E k \in 1..Len(f_inst) : f_inst[k].org = Len(in_inst) - 2

\* C19 as stated: the input's frame-restore instruction (the one just
\* before the trailing pop) is deleted exactly when the final stack_size
\* is 0 and the function has at most 4 parameters.
C19_RestoreDeleted ==
  pc = "done" => (~RestoreKept <=> (stack_size = 0 /\ ~use_stack_param))

\* C19 as the code has it: the frame-restore is deleted exactly when the
\* final stack_size is 0, with or without stack arguments; when it is
\* kept it is the instruction just before the trailing pop.
C19_RestoreDeletedWhenNoFrame ==
  pc = "done" =>
    /\ ~RestoreKept <=> stack_size = 0
    /\ RestoreKept => f_inst[Len(f_inst) - 1].org = Len(in_inst) - 2

\* a function with stack arguments and no frame was patched
C19_Witness == pc = "done" /\ stack_size = 0 /\ use_stack_param /\ ~RestoreKept

\* ------------------------------------------------------------------------
\* C20  Block-boundary arming
\* ------------------------------------------------------------------------
PAT_BB_LABEL == <<".", "b", "b">>

\* the instruction the next step of the scan processes is a label
AtLabel == pc = "scan" /\ idx < Len(in_inst) /\ in_inst[idx + 1].kind = "Label"

\* C20: bb_reset becomes true only in a step that processes a label
\* beginning with `.bb`; a step that processes a label not beginning
\* with `.bb` (for example `.ld_pc0`) leaves bb_reset as it was.
C20_BlockArming ==
  [][/\ (~bb_reset /\ bb_reset') =>
          (AtLabel /\ BeginsWith(in_inst[idx + 1].label, PAT_BB_LABEL))
     /\ (AtLabel /\ ~BeginsWith(in_inst[idx + 1].label, PAT_BB_LABEL)) =>
          bb_reset' = bb_reset]_vars

\* what the code does: every label arms bb_reset
C20_EveryLabelArms ==
  [][AtLabel => bb_reset']_vars

\* ------------------------------------------------------------------------
\* C21  The `.ld_pc` swap
\* ------------------------------------------------------------------------
\* the step that processes the label at idx put it in front of the
\* instruction that was last in the output
SwappedAtLabel ==
  /\ Len(inst_sink') = Len(inst_sink) + 1
  /\ inst_sink'[Len(inst_sink)].kind = "Label"
  /\ inst_sink'[Len(inst_sink)].org = idx

\* the last instruction of the output is a store the allocator inserted
LastIsInsertedStore ==
  /\ Len(inst_sink) > 0
  /\ IsSpillInst(inst_sink[Len(inst_sink)])
  /\ inst_sink[Len(inst_sink)].op = "StR"

\* C21: the step that processes a label swaps the last two output
\* instructions only if the label begins with `.ld_pc` and the
\* instruction emitted just before it is a store inserted by the
\* allocator; after a load, after a load/store of the input, or after
\* any other instruction there is no swap.
C21_LdPcSwap ==
  [][(AtLabel /\ SwappedAtLabel) =>
       (BeginsWith(in_inst[idx + 1].label, PAT_LD_PC) /\ LastIsInsertedStore)]_vars

\* what the code does: the swap happens after any load/store instruction
C21_SwapAfterAnyLoadStore ==
  [][AtLabel =>
       (SwappedAtLabel <=>
          /\ BeginsWith(in_inst[idx + 1].label, PAT_LD_PC)
          /\ Len(inst_sink) > 0
          /\ inst_sink[Len(inst_sink)].kind = "LoadStore")]_vars

\* ------------------------------------------------------------------------
\* C22  Spill addressing
\* ------------------------------------------------------------------------
IsOffsetStack(x) == x.kind = "Ctrl" /\ x.op = "offset_stack"

\* the sum of the offset_stack values among the first n instructions of q
RECURSIVE OffsetSum(_, _)
OffsetSum(q, n) ==
  IF n = 0 THEN 0
  ELSE OffsetSum(q, n - 1) + (IF IsOffsetStack(q[n]) THEN q[n].imm ELSE 0)

\* C22: every str/ldr the allocator inserted for a virtual v addresses
\* [sp, #slot(v) + stack_offset], stack_offset being the sum of the
\* offset_stack values processed before it (0 at first); every CtrlInst
\* is in the output as it was in the input, and a CtrlInst with another
\* key does not change stack_offset.
C22_SpillAddressing ==
  pc \in {"scan", "patch"} =>
    /\ stack_offset = OffsetSum(in_inst, idx)
    /\ \A k \in 1..Len(inst_sink) :
         LET y == inst_sink[k]
         IN /\ IsSpillInst(y) =>
                 /\ y.op \in {"StR", "LdR"}
                 /\ y.gv \in DOMAIN spill_positions
                 /\ y.r1 = REG_SP
                 /\ y.r2 = NoReg
                 /\ y.imm = spill_positions[y.gv] + OffsetSum(inst_sink, k - 1)
            /\ y.kind = "Ctrl" =>
                 /\ y.org # NoReg
                 /\ y.op = in_inst[y.org + 1].op
                 /\ y.imm = in_inst[y.org + 1].imm
    /\ \A j \in 1..idx :
         in_inst[j].kind = "Ctrl" => \E k \in 1..Len(inst_sink) : inst_sink[k].org = j - 1

\* a spill was emitted while stack_offset was not 0, after a CtrlInst
\* with another key and after stack_offset had come back from another
\* value
C22_Witness ==
  /\ pc = "patch"
  /\ \E k \in 1..Len(inst_sink) :
       /\ IsSpillInst(inst_sink[k])
       /\ OffsetSum(inst_sink, k - 1) # 0
       /\ \E j \in 1..(k - 1) : inst_sink[j].kind = "Ctrl" /\ ~IsOffsetStack(inst_sink[j])

\* ------------------------------------------------------------------------
\* C23  Pool preference
\* ------------------------------------------------------------------------
FreeTemp == {k \in 1..Len(TEMP_REGS) : TEMP_REGS[k] \notin DOMAIN active}

FreeGlob == {k \in 1..Len(GLOB_REGS) :
               GLOB_REGS[k] \notin DOMAIN active /\ GLOB_REGS[k] \notin used_regs}

Lowest(S) == CHOOSE k \in S : \A j \in S : k <= j

\* the intervals the scan asks a register for on behalf of virtual v at
\* instruction idx: the whole live interval, or what is left of it (or
\* of the interval v was spilled with) from idx on
RequestIntervals(v) ==
  {I \in {live_intervals[v], with_starting_point(live_intervals[v], idx)}
         \cup (IF v \in DOMAIN spilled_regs
               THEN {with_starting_point(spilled_regs[v], idx)} ELSE {}) :
     I.start <= I.end}

\* the register the preference rule names, NoReg when both pools are
\* exhausted
Preferred(I) ==
  LET glob == IF FreeGlob = {} THEN NoReg ELSE GLOB_REGS[Lowest(FreeGlob)]
      temp == IF FreeTemp = {} THEN NoReg ELSE TEMP_REGS[Lowest(FreeTemp)]
  IN IF CallWithin(I)
     THEN (IF glob # NoReg THEN glob ELSE temp)
     ELSE (IF temp # NoReg THEN temp ELSE glob)

\* C23: between two instructions, for a virtual not in active_reg_map and
\* an interval I: with a bl index in [I.start, I.end]
\* alloc_transient_reg returns the first callee-saved register that is
\* neither in active nor in used_regs, and records it in used_regs_temp,
\* and a free TEMP register only when there is none; with no bl index in
\* [I.start, I.end] it returns the first free TEMP register and a
\* callee-saved register (not in used_regs) only when no TEMP register
\* is free.
C23_PoolPreference ==
  pc = "scan" =>
    \A v \in Inactive : \A I \in RequestIntervals(v) :
      LET out == alloc_transient_reg(ScanState, I, v)
      IN Preferred(I) # NoReg =>
           /\ out.err = ""
           /\ out.ret = Preferred(I)
           /\ out.used_regs_temp =
                used_regs_temp \cup (IF out.ret \in CalleeSaved THEN {out.ret} ELSE {})

\* a virtual that lives across a call holds a TEMP register (no
\* callee-saved register was left), or a virtual that does not holds a
\* callee-saved register (no TEMP register was left)
C23_Witness ==
  /\ pc = "scan"
  /\ \E k \in 1..Len(active_reg_map) :
       LET v == active_reg_map[k][1]
           p == active_reg_map[k][2]
       IN /\ v \in DOMAIN live_intervals
          /\ p \in DOMAIN active
          /\ active[p] = live_intervals[v]
          /\ \/ CallWithin(live_intervals[v]) /\ p \in SeqRange(TEMP_REGS)
                /\ \A g \in CalleeSaved : g \in used_regs
             \/ ~CallWithin(live_intervals[v]) /\ p \in CalleeSaved

\* ------------------------------------------------------------------------
\* C24  Eviction order
\* ------------------------------------------------------------------------
\* the index of the last instruction processed so far that names v, -1
\* when there is none
LastUseOf(v) ==
  LET at == {j \in 0..(idx - 1) : \E fld \in RegFields : in_inst[j + 1][fld] = v}
  IN IF at = {} THEN 0 - 1 ELSE CHOOSE j \in at : \A m \in at : m <= j

\* both pools are exhausted and there is an entry to evict
MustEvict == ~PoolFree /\ Len(active_reg_map) > 0

\* C24: between two instructions active_reg_map is ordered by last use:
\* an entry nearer the front belongs to a virtual whose most recent
\* allocation or reuse is not younger; and when both pools are exhausted
\* alloc_transient_reg evicts the front entry: it emits a str of that
\* virtual's register to its spill slot under cur_cond, records the
\* virtual in spilled_regs, removes it from active_reg_map and active,
\* and gives its register to the requester.
C24_EvictionOrder ==
  pc = "scan" =>
    /\ \A k, l \in 1..Len(active_reg_map) :
         k < l => LastUseOf(active_reg_map[k][1]) <= LastUseOf(active_reg_map[l][1])
    /\ MustEvict =>
         \A v \in Inactive :
           LET I == live_intervals[v]
               out == alloc_transient_reg(ScanState, I, v)
               victim == active_reg_map[1][1]
               p == active_reg_map[1][2]
               st == out.inst_sink[Len(out.inst_sink)]
           IN /\ out.err = ""
              /\ out.ret = p
              /\ Len(out.inst_sink) = Len(inst_sink) + 1
              /\ st.kind = "LoadStore" /\ st.op = "StR" /\ st.rd = p
              /\ st.r1 = REG_SP /\ st.r2 = NoReg
              /\ st.imm = out.spill_positions[victim] + stack_offset
              /\ st.cond = cur_cond
              /\ victim \in DOMAIN out.spilled_regs
              /\ out.spilled_regs =
                   MapInsert(spilled_regs, victim, [active[p] EXCEPT !.start = I.start])
              /\ \A k \in 1..Len(out.arm) : out.arm[k][1] # victim
              /\ out.active[p] = I
              /\ out.arm = Append(Tail(active_reg_map), <<v, p>>)

\* both pools are exhausted with two virtuals in active_reg_map, used at
\* different instructions, and a third virtual waiting for a register
C24_Witness ==
  /\ pc = "scan"
  /\ MustEvict
  /\ Inactive # {}
  /\ Len(active_reg_map) >= 2
  /\ LastUseOf(active_reg_map[1][1]) < LastUseOf(active_reg_map[2][1])

\* ------------------------------------------------------------------------
\* C25  Reload
\* ------------------------------------------------------------------------
\* y is the ldr of virtual v into p that the allocator inserts now
IsReloadOf(y, v, p) ==
  /\ y.kind = "LoadStore" /\ y.op = "LdR" /\ y.org = NoReg
  /\ y.rd = p /\ y.r1 = REG_SP /\ y.r2 = NoReg
  /\ y.imm = spill_positions[v] + stack_offset
  /\ y.cond = cur_cond

\* y is a store of p to the slot of v under the current predicate
IsStoreOf(y, v, p) ==
  /\ y.kind = "LoadStore" /\ y.op = "StR"
  /\ y.rd = p /\ y.r1 = REG_SP /\ y.r2 = NoReg
  /\ y.imm = spill_positions[v] + stack_offset
  /\ y.cond = cur_cond

\* the first input instruction at or after position k of the output
NextFromInput(k) ==
  LET at == {c \in k..Len(inst_sink) : inst_sink[c].org # NoReg}
  IN IF at = {} THEN 0 ELSE Lowest(at)

\* the read of spilled virtual v by the next instruction, as replace_read
\* does it on the state between two instructions
ReloadsFromSlot(v) ==
  LET out == replace_read(ScanState, v, idx)
      last == out.inst_sink[Len(out.inst_sink)]
  IN out.err = "" =>
       /\ v \notin DOMAIN out.spilled_regs
       /\ v \in DOMAIN spill_positions
       /\ out.spill_positions[v] = spill_positions[v]
       /\ IF Len(inst_sink) > 0 /\ IsStoreOf(inst_sink[Len(inst_sink)], v, out.ret)
          THEN /\ out.inst_sink = SubSeq(inst_sink, 1, Len(inst_sink) - 1)
               /\ out.delayed_store = <<v, out.ret>>
          ELSE /\ Len(out.inst_sink) > Len(inst_sink)
               /\ IsReloadOf(last, v, out.ret)
               /\ out.delayed_store = delayed_store

\* the positions of the output after the step that are new in this step
EmittedNow ==
  {k \in 1..Len(inst_sink') : k > Len(inst_sink) \/ inst_sink'[k] # inst_sink[k]}

\* every ldr emitted in this step loads from the slot every store of its
\* virtual went to, and is followed, with only inserted instructions
\* between, by the input instruction of this step, which reads the virtual
ReloadsBeforeConsumer ==
  \A k \in EmittedNow :
    LET y == inst_sink'[k]
    IN (IsSpillInst(y) /\ y.op = "LdR") =>
         /\ y.gslot = spill_positions'[y.gv]
         /\ \A j \in 1..Len(inst_sink') :
              (IsSpillInst(inst_sink'[j]) /\ inst_sink'[j].gv = y.gv)
                => inst_sink'[j].gslot = y.gslot
         /\ ReadsReg(idx, y.gv)
         /\ \E c \in (k + 1)..Len(inst_sink') :
              /\ inst_sink'[c].org = idx
              /\ \A b \in (k + 1)..(c - 1) : inst_sink'[b].org = NoReg

\* C25: a read of a virtual v that is in spilled_regs removes v from
\* spilled_regs and emits ldr <phys>, [sp, #slot(v) + stack_offset] under
\* cur_cond, the slot every store of v went to; the ldr is emitted in
\* front of the instruction that reads v, with only inserted
\* instructions between; the one case without an ldr is the peephole,
\* where the last emitted instruction is the store of the same register
\* to the same slot under the same predicate.
C25_Reload ==
  [][(pc = "scan" /\ idx < Len(in_inst)) =>
       /\ \A v \in DOMAIN spilled_regs : ReadsReg(idx, v) => ReloadsFromSlot(v)
       /\ pc' # "failed" => ReloadsBeforeConsumer]_vars

\* a spilled virtual is about to be read, after the output got a store
\* and a reload of some virtual
C25_Witness ==
  /\ pc = "scan"
  /\ idx < Len(in_inst)
  /\ \E v \in DOMAIN spilled_regs : ReadsReg(idx, v)
  /\ \E j, k \in 1..Len(inst_sink) :
       /\ j < k
       /\ IsSpillInst(inst_sink[j]) /\ inst_sink[j].op = "StR"
       /\ IsSpillInst(inst_sink[k]) /\ inst_sink[k].op = "LdR"
       /\ inst_sink[j].gv = inst_sink[k].gv

\* the peephole case: the last output instruction is the store of a
\* spilled virtual that the next instruction reads
C25_WitnessPeephole ==
  /\ pc = "scan"
  /\ idx < Len(in_inst)
  /\ Len(inst_sink) > 0
  /\ \E v \in DOMAIN spilled_regs :
       /\ ReadsReg(idx, v)
       /\ IsStoreOf(inst_sink[Len(inst_sink)], v, replace_read(ScanState, v, idx).ret)

\* ------------------------------------------------------------------------
\* C26  Delayed store
\* ------------------------------------------------------------------------
\* the first position after k of the output that is not a label, 0 when
\* there is none
NextInstAfter(k) ==
  LET at == {c \in (k + 1)..Len(inst_sink) : inst_sink[c].kind # "Label"}
  IN IF at = {} THEN 0 ELSE Lowest(at)

\* the consumer at k was emitted with delayed_store = (v, rd): the next
\* instruction is the store of rd to the slot of v
DelayedStoreEmitted(k) ==
  LET y == inst_sink[k]
      c == NextInstAfter(k)
  IN (y.org # NoReg /\ y.dly # <<>>) =>
       /\ c # 0
       /\ IsSpillInst(inst_sink[c])
       /\ inst_sink[c].op = "StR"
       /\ inst_sink[c].gv = y.dly[1]
       /\ inst_sink[c].rd = y.dly[2]
       /\ inst_sink[c].gslot = spill_positions[y.dly[1]]

\* ... and when it executes rd holds the value of v
DelayedStoreWritesValue(before, k) ==
  LET y == inst_sink[k]
      c == NextInstAfter(k)
  IN (y.org # NoReg /\ y.dly # <<>> /\ c # 0) =>
       Val(before[c].reg, y.dly[2]) = last_def(y.dly[1], y.org + 1)

\* C26: when the read peephole cancels str rd, [sp, #slot(v) +
\* stack_offset] and records delayed_store = (v, rd), a store of rd to
\* slot(v) is emitted right after the consuming instruction in the same
\* scan step, and rd still holds v's value there; delayed_store is empty
\* at the start of every scan step.
C26_DelayedStore ==
  /\ pc = "scan" => delayed_store = <<>>
  /\ ScanDone =>
       \E before \in {Before(inst_sink)} :
         \A k \in 1..Len(inst_sink) :
           DelayedStoreEmitted(k) /\ DelayedStoreWritesValue(before, k)

\* what the code does deliver: the store is emitted after the consumer
\* and delayed_store is empty between two instructions
C26_StoreEmitted ==
  /\ pc = "scan" => delayed_store = <<>>
  /\ ScanDone => \A k \in 1..Len(inst_sink) : DelayedStoreEmitted(k)

\* ------------------------------------------------------------------------
\* C27  Coalescing safety
\* ------------------------------------------------------------------------
\* the live intervals as calc_live_intervals computed them, before
\* calc_reg_affinity extended any
OriginalIntervals ==
  live_from([live_intervals |-> EmptyMap, reg_assign_count |-> EmptyMap,
             reg_affine |-> EmptyMap, bl_points |-> {}, point_bb_map |-> EmptyMap,
             used_regs |-> used_regs, ub |-> FALSE], in_inst, 0).live_intervals

\* end > other.start && start < other.end
IntervalsOverlap(a, b) == a.end > b.start /\ a.start < b.end

Covers(a, b) == a.start <= b.start /\ a.end >= b.end

\* neither graph-coloured nor cross-block spilled
IsLocal(r) == r \notin DOMAIN reg_map /\ r \notin spilled_cross_block_reg

\* the registers that were collapsed, with their roots
Collapsed == DOMAIN reg_collapse \cup {reg_collapse[r] : r \in DOMAIN reg_collapse}

\* C27: calc_reg_affinity sets reg_collapse[dst] = src for two distinct
\* registers that are neither graph-coloured nor cross-block spilled
\* exactly when the intervals of their roots do not overlap (end >
\* other.start and start < other.end is false), and then the root's
\* interval covers both; afterwards any two distinct such registers that
\* share a collapse root have original live intervals that do not
\* overlap, and the root's interval covers each of them.
C27_CoalescingSafety ==
  /\ pc = "affinity" =>
       \A dst \in DOMAIN reg_affine :
         LET src == reg_affine[dst]
             a == affine_one(AffState, dst, src)
         IN (IsLocal(dst) /\ IsLocal(src) /\ dst # src) =>
              /\ a.err = ""
              /\ dst \in DOMAIN a.reg_collapse
                   <=> ~IntervalsOverlap(live_intervals[src], live_intervals[dst])
              /\ dst \in DOMAIN a.reg_collapse =>
                   /\ a.reg_collapse[dst] = src
                   /\ Covers(a.live_intervals[src], live_intervals[src])
                   /\ Covers(a.live_intervals[src], live_intervals[dst])
  /\ AffinityDone =>
       \E orig \in {OriginalIntervals} :
         \A a \in Collapsed : \A b \in Collapsed :
           (/\ IsLocal(a) /\ IsLocal(b)
            /\ get_collapse_reg(a) # Diverges
            /\ get_collapse_reg(a) = get_collapse_reg(b)) =>
             /\ a # b => ~IntervalsOverlap(orig[a], orig[b])
             /\ Covers(live_intervals[get_collapse_reg(a)], orig[a])

\* three registers share a collapse root whose interval grew
C27_Witness ==
  /\ AffinityDone
  /\ \E r \in DOMAIN reg_collapse :
       /\ reg_collapse[r] \in DOMAIN reg_collapse
       /\ get_collapse_reg(r) \notin {Diverges, r, reg_collapse[r]}
       /\ live_intervals[get_collapse_reg(r)] # OriginalIntervals[get_collapse_reg(r)]

\* ------------------------------------------------------------------------
\* C28: is_valid_immediate and the ARM data-processing immediates
\* ------------------------------------------------------------------------
\* the word with exactly the bits of a small number n (n < 2^16)
RECURSIVE BitsOf(_, _)
BitsOf(n, b) ==
  IF n = 0 THEN {}
  ELSE (IF n % 2 = 1 THEN {b} ELSE {}) \cup BitsOf(n \div 2, b + 1)

Word(n) == BitsOf(n, 0)

\* an 8-bit payload rotated right by an even amount: rotating the value
\* left by that amount gives the payload back
ArmImmediate(val) ==
  \E r \in 0..15 : rotl32(val, 2 * r) \subseteq BitsBelow(8)

ImmReturned == imm_ok \in {"true", "false"}

\* C28: is_valid_immediate(val) is true exactly for the values an ARM
\* data-processing instruction can encode as an immediate (an 8-bit
\* payload rotated right by an even amount); 0x100, 0x3fc, 0xff00 and
\* 0xff000000 are accepted, 0x101 and 0x1fe are rejected.
C28_ValidImmediate ==
  ImmReturned => (imm_ok = "true" <=> ArmImmediate(imm_val))

\* what the code computes: the mask 0xff << (k + 1) never covers the lowest
\* 1 bit k itself, so only the values up to 0xff are accepted
C28_AcceptsOnlyBytes ==
  ImmReturned => (imm_ok = "true" <=> imm_val \subseteq BitsBelow(8))

\* the values the claim lists are among the arguments, and the rule given
\* in words sorts them as the claim says
C28_ExamplesCovered ==
  /\ {Word(255), Word(256), Word(1020), Word(65280), rotl32(Word(255), 24),
      Word(257), Word(510)} \subseteq ImmInputs
  /\ \A w \in {Word(255), Word(256), Word(1020), Word(65280), rotl32(Word(255), 24)} :
       ArmImmediate(w)
  /\ ~ArmImmediate(Word(257)) /\ ~ArmImmediate(Word(510))

\* 0x100 has been rejected
C28_Rejects0x100 == ~(imm_val = Word(256) /\ imm_ok = "false")

\* ------------------------------------------------------------------------
\* C29: active_reg_map and active between two instructions of the scan
\* ------------------------------------------------------------------------
AtBoundary == pc \in {"scan", "patch"}

EntriesPointIntoActive ==
  \A k \in 1..Len(active_reg_map) : active_reg_map[k][2] \in DOMAIN active

EntriesDistinct ==
  \A j, k \in 1..Len(active_reg_map) :
    j # k => /\ active_reg_map[j][1] # active_reg_map[k][1]
             /\ active_reg_map[j][2] # active_reg_map[k][2]

\* C29: between two instructions of the scan every entry (v, p) of
\* active_reg_map has p in active, no two entries have the same virtual or
\* the same physical register, and after a bl no entry names one of the
\* registers the bl erased.
C29_ActiveMapConsistent ==
  AtBoundary =>
    /\ EntriesPointIntoActive
    /\ EntriesDistinct
    /\ AfterCall =>
         \A k \in 1..Len(active_reg_map) : active_reg_map[k][2] \notin CALL_CLOBBERED


\* the bl just processed found virtual v in one of the registers it
\* erases: the store of that register to the slot of v is the instruction
\* ahead of the bl, and v is spilled
FreedAtCall(v) ==
  /\ AfterCall
  /\ v \in DOMAIN spilled_regs
  /\ v \in DOMAIN spill_positions
  /\ Len(inst_sink) >= 2
  /\ \E p \in CALL_CLOBBERED : IsStoreOf(inst_sink[Len(inst_sink) - 1], v, p)

\* a bl has freed a virtual from a register it erases while another
\* virtual stays in a callee-saved register
C29_Witness ==
  /\ \E v \in DOMAIN spilled_regs : FreedAtCall(v)
  /\ Len(active_reg_map) > 0

\* two virtuals are in registers between two instructions
C29_WitnessTwo == AtBoundary /\ Len(active_reg_map) >= 2

\* ------------------------------------------------------------------------
\* C30: the source operands of one instruction
\* ------------------------------------------------------------------------
\* the read operand positions of output instruction y, taken from the input,
\* that hold a virtual register
VirtualSources(y) ==
  {fld \in ReadFields(in_inst[y.org + 1]) :
     is_virtual_register(get_collapse_reg(in_inst[y.org + 1][fld]))}

\* C30: in the output, two source operands of one instruction that are
\* distinct virtual registers in the input (after collapse) are distinct
\* physical registers: allocating for a later read operand does not evict
\* the virtual substituted as an earlier read operand.
C30_SourcesDistinct ==
  \A k \in 1..Len(inst_sink) :
    inst_sink[k].org # NoReg =>
      \A a, b \in VirtualSources(inst_sink[k]) :
        get_collapse_reg(in_inst[inst_sink[k].org + 1][a])
            # get_collapse_reg(in_inst[inst_sink[k].org + 1][b])
          => inst_sink[k][a] # inst_sink[k][b]

\* ------------------------------------------------------------------------
\* C31: physical register operands
\* ------------------------------------------------------------------------
\* the operand positions of input instruction x that name a physical register
PhysicalOperands(x) ==
  {fld \in RegFields : x[fld] # NoReg /\ ~is_virtual_register(x[fld])}

\* C31: a physical register operand of an input instruction is the same
\* physical register in the output; the rewriting, get_collapse_reg
\* included, never replaces one physical register by another.
C31_PhysicalKept ==
  \A k \in 1..Len(inst_sink) :
    inst_sink[k].org # NoReg =>
      \A fld \in PhysicalOperands(in_inst[inst_sink[k].org + 1]) :
        inst_sink[k][fld] = in_inst[inst_sink[k].org + 1][fld]

\* with nothing collapsed the physical operands are kept
C31_KeptWithoutCollapse ==
  (reg_collapse = EmptyMap) => C31_PhysicalKept

\* ------------------------------------------------------------------------
\* C32: the first read of a cross-block virtual
\* ------------------------------------------------------------------------
InActiveRegMap(v) == \E k \in 1..Len(active_reg_map) : active_reg_map[k][1] = v

\* the next instruction reads cross-block virtual v, which has no register
ReadsUnloaded(v) ==
  /\ pc = "scan"
  /\ idx < Len(in_inst)
  /\ v \in spilled_cross_block_reg
  /\ ReadsReg(idx, v)
  /\ ~InActiveRegMap(v)

\* replace_read on v, from the state between two instructions, emits the
\* ldr of v's slot into the register it substitutes
LoadsOnRead(v) ==
  LET out == replace_read(ScanState, v, idx)
  IN out.err = "" =>
       /\ Len(out.inst_sink) > Len(inst_sink)
       /\ IsReloadOf(out.inst_sink[Len(out.inst_sink)], v, out.ret)

\* C32: when a cross-block virtual v is read while it is not in
\* active_reg_map, an ldr from [sp, #slot(v) + stack_offset] into the
\* substituted register is emitted ahead of the consumer, also when v was
\* neither written nor read earlier in the scan.
C32_CrossBlockReload ==
  \A v \in spilled_cross_block_reg :
    (ReadsUnloaded(v) /\ ~IsStoreOf(inst_sink[Len(inst_sink)], v,
                                    replace_read(ScanState, v, idx).ret))
      => LoadsOnRead(v)

\* what the code does: the ldr is emitted when v is in spilled_regs, and
\* a v that is not gets a register and no ldr (the one instruction that
\* can be emitted for it is the store of an evicted virtual)
C32_ReloadOnlyWhenSpilled ==
  \A v \in spilled_cross_block_reg :
    ReadsUnloaded(v) =>
      IF v \in DOMAIN spilled_regs
      THEN ReloadsFromSlot(v)
      ELSE LET out == replace_read(ScanState, v, idx)
           IN out.err = "" =>
                \A k \in 1..Len(out.inst_sink) :
                  k > Len(inst_sink) => out.inst_sink[k].op = "StR"


\* input instruction j (from 0) is the label l / a branch `b` to l
IsLabelAt(j, l) == in_inst[j + 1].kind = "Label" /\ in_inst[j + 1].label = l
IsBranchTo(j, l) ==
  in_inst[j + 1].kind = "Br" /\ in_inst[j + 1].op = "B" /\ in_inst[j + 1].label = l

\* the defining block of v comes after the reading block in the text: the
\* function enters with a branch over the block being read to a block that
\* writes v and branches back; no earlier instruction of the text names v
DefinedLaterInText(v) ==
  /\ ReadsUnloaded(v)
  /\ \A j \in 0..(idx - 1) : \A fld \in RegFields : in_inst[j + 1][fld] # v
  /\ \E here, def \in {LBL_BB1, LBL_BB2, LBL_BB3} :
       /\ here # def
       /\ IsBranchTo(2, def)
       /\ IsLabelAt(3, here)
       /\ \E jl, jw, jb \in (idx + 1)..(Len(in_inst) - 1) :
            /\ jl < jw /\ jw < jb
            /\ IsLabelAt(jl, def)
            /\ Writes(in_inst[jw + 1], v)
            /\ IsBranchTo(jb, here)

\* the first read of a cross-block virtual whose defining block comes later
\* in the text loads it
C32_LoadedWhenDefinedLater ==
  \A v \in spilled_cross_block_reg : DefinedLaterInText(v) => LoadsOnRead(v)

\* ------------------------------------------------------------------------
\* C33: cross-block virtuals at block labels
\* ------------------------------------------------------------------------
\* the instruction the scan has just processed is a `.bb` block label
PastBlockLabel ==
  /\ AtBoundary
  /\ idx > 0
  /\ idx <= Len(in_inst)
  /\ in_inst[idx].kind = "Label"
  /\ BeginsWith(in_inst[idx].label, PAT_BB_LABEL)

CrossBlockInRegister ==
  \E k \in 1..Len(active_reg_map) : active_reg_map[k][1] \in spilled_cross_block_reg

\* C33: at every `.bb` block label the scan reaches, no cross-block
\* virtual is in active_reg_map, whatever ends the block before it (a
\* conditional branch followed by more code, several branches, or
\* fall-through without `b`).
C33_NoCrossBlockAtLabel == PastBlockLabel => ~CrossBlockInRegister

\* the instruction the scan has just processed is a `b` (of any
\* condition) that found bb_reset set
PastFlushingBranch ==
  /\ AtBoundary
  /\ idx > 0
  /\ idx <= Len(in_inst)
  /\ in_inst[idx].kind = "Br"
  /\ in_inst[idx].op = "B"
  /\ \A j \in 1..(idx - 1) :
       (in_inst[j].kind = "Br" /\ in_inst[j].op = "B")
         => \E l \in (j + 1)..(idx - 1) : in_inst[l].kind = "Label"

\* what the code does: the first `b` after a label (or after the start)
\* leaves no cross-block virtual in active_reg_map
C33_FlushedAtFirstBranch == PastFlushingBranch => ~CrossBlockInRegister

\* ------------------------------------------------------------------------
\* C34: the register alloc_transient_reg returns
\* ------------------------------------------------------------------------
\* the reg_map homes of the graph-coloured virtuals
GraphHomes == {reg_map[v] : v \in DOMAIN reg_map}

\* register p may be handed out from scan state s: it is no home of a
\* coloured virtual, and it is free or is the register of the front entry
\* of active_reg_map; a register a physical write has pinned is neither
Allocatable(s, p) ==
  /\ p \notin GraphHomes
  /\ p \notin used_regs
  /\ \/ p \notin DOMAIN s.active
     \/ Len(s.arm) > 0 /\ p = s.arm[1][2]
  /\ ~(p \in DOMAIN s.active /\ s.active[p].end = PINNED_END)

\* alloc_transient_reg from s for virtual v, which has no entry in s
AllocatesWell(s, I, v) ==
  LET out == alloc_transient_reg(s, I, v)
  IN out.err = "" => Allocatable(s, out.ret)

\* C34: for a virtual that is not active alloc_transient_reg returns a
\* register that is no reg_map home (not in used_regs) and that, just
\* before the call, was absent from active or was the register of the
\* evicted front entry of active_reg_map; never a register pinned in
\* active by a physical write.  Checked for the first and for the second
\* allocation of one instruction.
C34_AllocatedRegister ==
  pc = "scan" =>
    \A v \in Inactive : \A I \in RequestIntervals(v) :
      /\ AllocatesWell(ScanState, I, v)
      /\ \A w \in Inactive \ {v} : \A J \in RequestIntervals(w) :
           LET s1 == alloc_transient_reg(ScanState, I, v)
           IN s1.err = "" => AllocatesWell(s1, J, w)

\* a virtual waits for a register while a physical write has pinned a
\* register, a coloured virtual has a home, and the pools are exhausted
C34_Witness ==
  /\ pc = "scan"
  /\ Inactive # {}
  /\ MustEvict
  /\ used_regs # {}
  /\ \E p \in DOMAIN active : active[p].end = PINNED_END

\* a virtual whose interval has a call in it waits for a register while a
\* home of a coloured virtual is not in active
C34_WitnessHome ==
  /\ pc = "scan"
  /\ \E v \in Inactive : crosses_bl(live_intervals[v])
  /\ \E p \in used_regs : p \notin DOMAIN active

\* ------------------------------------------------------------------------
\* C35: physical registers whose value the input reads
\* ------------------------------------------------------------------------
\* the input instruction behind output position c reads physical register p
ReadsPhysical(c, p) ==
  /\ inst_sink[c].org # NoReg
  /\ \E fld \in ReadFields(in_inst[inst_sink[c].org + 1]) :
       in_inst[inst_sink[c].org + 1][fld] = p

\* the output positions ahead of c where the input gives p a value: a
\* write of p, or (for r0) a call
Establishes(c, p) ==
  {e \in 1..(c - 1) :
     /\ inst_sink[e].org # NoReg
     /\ \/ Writes(in_inst[inst_sink[e].org + 1], p)
        \/ in_inst[inst_sink[e].org + 1].kind = "Br"
             /\ in_inst[inst_sink[e].org + 1].op = "Bl"}

\* where the value read at c was established: 0 is the function entry
EstablishedAt(c, p) ==
  IF Establishes(c, p) = {} THEN 0
  ELSE CHOOSE e \in Establishes(c, p) : \A d \in Establishes(c, p) : d <= e

\* the read at c has a value in the input: an incoming argument, the
\* last physical write, or the value a call returned in r0
HasValue(c, p) ==
  LET e == EstablishedAt(c, p)
  IN IF e = 0 THEN p < Min2(f_nparams, MAX_REG_PARAMS)
     ELSE in_inst[inst_sink[e].org + 1].kind = "Br" => p = 0

\* y is the copy of p to itself, which leaves the value of p in p
IsSelfCopy(y, p) ==
  /\ y.kind = "Arith2" /\ y.op = "Mov" /\ y.cond = "AL"
  /\ y.r1 = p /\ y.r2 = p

\* output position k gives p to a virtual with another value, or loads it
\* with an inserted ldr
TakenAt(k, p) ==
  LET y == inst_sink[k]
  IN IF y.org = NoReg
     THEN y.kind = "LoadStore" /\ y.op = "LdR" /\ y.rd = p
     ELSE LET x == in_inst[y.org + 1]
          IN /\ WriteField(x) # ""
             /\ is_virtual_register(x[WriteField(x)])
             /\ y[WriteField(x)] = p
             /\ ~IsSelfCopy(y, p)

\* C35: a physical register whose value an input instruction reads (an
\* incoming argument read before any write, or r0 read after a bl) is not
\* given to a virtual and not loaded by an inserted ldr between the point
\* that established the value and the read.
C35_ReadValueKept ==
  \A c \in 1..Len(inst_sink) : \A p \in 0..(MAX_REG_PARAMS - 1) :
    (ReadsPhysical(c, p) /\ HasValue(c, p)) =>
      \A k \in (EstablishedAt(c, p) + 1)..(c - 1) : ~TakenAt(k, p)

\* the value of a physical write is kept up to its read
C35_WrittenValueKept ==
  \A c \in 1..Len(inst_sink) : \A p \in 0..(MAX_REG_PARAMS - 1) :
    (ReadsPhysical(c, p) /\ EstablishedAt(c, p) # 0
       /\ in_inst[inst_sink[EstablishedAt(c, p)].org + 1].kind # "Br") =>
      \A k \in (EstablishedAt(c, p) + 1)..(c - 1) : ~TakenAt(k, p)

\* ------------------------------------------------------------------------
\* C36: spill slots
\* ------------------------------------------------------------------------
\* distinct virtuals have distinct slots, every slot is a whole number of
\* words above the stack size the function came with and below the
\* current one, and every inserted store or load of a virtual in the
\* output goes to the slot of that virtual
SlotsUniqueInRange ==
  /\ \A v, w \in DOMAIN spill_positions :
       v # w => spill_positions[v] # spill_positions[w]
  /\ \A v \in DOMAIN spill_positions :
       /\ (spill_positions[v] - f_stack_size) % SLOT_SIZE = 0
       /\ f_stack_size <= spill_positions[v]
       /\ spill_positions[v] < stack_size
  /\ \A k \in 1..Len(inst_sink) :
       IsSpillInst(inst_sink[k]) =>
         /\ inst_sink[k].gv \in DOMAIN spill_positions
         /\ inst_sink[k].gslot = spill_positions[inst_sink[k].gv]
  /\ stack_size >= f_stack_size

\* a virtual keeps the slot it has, and stack_size does not decrease
SlotsKept ==
  /\ \A v \in DOMAIN spill_positions :
       v \in DOMAIN spill_positions' /\ spill_positions'[v] = spill_positions[v]
  /\ stack_size' >= stack_size

\* C36: in every reachable state spill_positions gives distinct virtuals
\* distinct offsets, each a multiple of 4 above the initial stack_size and
\* in [initial stack_size, stack_size); once a virtual has a slot every
\* later store or load of it uses that slot; stack_size never decreases.
C36_SpillSlots == []SlotsUniqueInRange /\ [][SlotsKept]_vars

\* a function that came with a frame has two slots, one given by
\* construct_reg_map and one by the scan, and the output has a store and a
\* later load of one virtual
C36_Witness ==
  /\ f_stack_size > 0
  /\ spilled_cross_block_reg # {}
  /\ \E v \in DOMAIN spill_positions : v \notin spilled_cross_block_reg
  /\ \E j, k \in 1..Len(inst_sink) :
       /\ j < k
       /\ IsSpillInst(inst_sink[j]) /\ inst_sink[j].op = "StR"
       /\ IsSpillInst(inst_sink[k]) /\ inst_sink[k].op = "LdR"
       /\ inst_sink[j].gv = inst_sink[k].gv

====
